---- MODULE Spec2Model ----
\* Road-network connectivity, stretch traversal, continuity validation and
\* distance segmentation of the route-registration-tool server, as state
\* machines over a small roads table and small coordinate sequences.
\*
\* Coordinates are integers on a grid; one grid unit is far larger than any
\* epsilon literal of the code, so "ABS(x - y) < eps" on the grid is decided by
\* the integer tolerance given in grid units.  Python sets of small ints
\* iterate in ascending order (CPython), which is how list(set) is modelled.
EXTENDS Integers, Sequences, FiniteSets, TLC

\* ---------------------------------------------------------------- bounds
NRoads == 3
MaxLat == 1
MaxLng == 1
MaxTol == 1
MaxDepth == 1
MaxPoints == 4
MaxPosition == 4
MaxTarget == 3

\* the number of roads of the table the hop-by-hop traversals run on
NHopRoads == 4

\* the number of rows of the routes table
NRoutes == 2
\* the largest timestamp and the largest length (km) of a stored route
MaxStamp == 1
MaxRouteLength == 2

\* the most listener threads started and the most join_thread threads pending
MaxThreads == 3
MaxJoiners == 2

\* the number of routes handed to build_stretches and the grid they lie on
NStretchRoutes == 3
MaxRouteLat == 1
MaxRouteLng == 2

\* the number of concurrent create_wrapper / delete_wrapper tasks, the ticks
\* of the clock in one second, and the last tick of the clock
NTasks == 2
TicksPerSecond == 100
MaxTime == 5

\* the most page requests one fetch sends
MaxPages == 2
\* the most roads the collaborator puts on one page
MaxPageRoads == 2
\* the length in metres of the route the crossings are searched for
RouteLength == 20

\* ------------------------------------------------------ program constants
\* stretch_roads.py EPSILON (0.000001 degrees): below one grid unit, so two
\* grid coordinates are within EPSILON exactly when they are equal.
EPSILON == 1
\* sql_connectivity.py stretch_road_sql: max_depth: int = 100
DefaultMaxDepth == 100
\* spatial_helpers.py are_roads_connected: tolerance_meters: float = 15.0
DefaultToleranceMeters == 15

\* sql_connectivity.py COORDINATE_TOLERANCE_DEGREES (0.00005 degrees, about
\* 5.5 m): below one grid step, so it matches exactly the equal grid points,
\* as a tolerance of one grid unit does under the strict "<" of the queries.
COORDINATE_TOLERANCE_DEGREES == 1

\* polygon_roads_api.py fetch_roads_generator: the limit of "total_fetched >
\* 5000", scaled to the page sizes of the model
ROAD_LIMIT == 1

\* sync_routes.py MAX_QPS
MAX_QPS == 50
\* sync_routes.py MIN_INTERVAL = 1 / MAX_QPS, in ticks
MIN_INTERVAL == TicksPerSecond \div MAX_QPS

VARIABLES
    roads,              \* the roads table: id -> row
    pc,                 \* position of the running request
    op,                 \* the request: operation name and its arguments
    ret,                \* the value returned by the request
    road_sequence,      \* stretch_road_sql: road_sequence
    visited,            \* stretch_road_sql: visited
    current_road_id,    \* _traverse_linear_sql: current_road_id
    t_visited,          \* _traverse_linear_sql: visited (the caller's copy)
    sequence,           \* _traverse_linear_sql: sequence
    t_break,            \* _traverse_linear_sql: a break statement was executed
    segments,           \* segment_polyline_by_distance: segments
    current_segment,    \* segment_polyline_by_distance: current_segment
    accumulated,        \* segment_polyline_by_distance: accumulated
    edge_i,             \* segment_polyline_by_distance: the loop variable i (1-based)
    current_start,      \* segment_polyline_by_distance: current_start
    remaining_dist,     \* segment_polyline_by_distance: remaining_dist
    cut_ends,           \* the pieces of segments that end in an interpolated cut point
    all_roads,          \* fetch_roads_from_api: all_roads
    page_token,         \* fetch_roads_from_api: page_token (0 is None)
    requests,           \* the number of page requests sent to the collaborator
    fetch_failed,       \* how a page request failed: "none", "status" or "exception"
    total_fetched,      \* fetch_roads_generator: total_fetched
    routes,             \* the routes table: id -> row
    listener_thread,    \* pubsub.py: listener_thread (0 is None, else a thread id)
    stop_event,         \* pubsub.py: stop_event is set
    threads,            \* the listener threads started so far: id -> state
    joiners,            \* the join_thread threads that have not finished
    now,                \* monotonic(), in ticks
    last_request_time,  \* sync_routes.py: last_request_time
    request_lock,       \* sync_routes.py: the task that holds request_lock (0: free)
    cached_token,       \* google_roads_api.py: cached_token is valid
    token_lock,         \* google_roads_api.py: the task that holds token_lock (0: free)
    task_pc,            \* the position of each create_wrapper / delete_wrapper task
    wake,               \* the time at which a task's asyncio.sleep ends
    request_time        \* the time at which a task started its API request (-1: not yet)

vars == <<roads, pc, op, ret, road_sequence, visited, current_road_id,
          t_visited, sequence, t_break, segments, current_segment, accumulated,
          edge_i, current_start, remaining_dist, cut_ends, all_roads, page_token,
          requests, fetch_failed, total_fetched, routes, listener_thread,
          stop_event, threads, joiners, now, last_request_time, request_lock,
          cached_token, token_lock, task_pc, wake, request_time>>

segVars == <<segments, current_segment, accumulated, edge_i, current_start,
             remaining_dist, cut_ends>>

fetchVars == <<all_roads, page_token, requests, fetch_failed>>

ingestVars == <<total_fetched>>

routeVars == <<routes>>

listenerVars == <<listener_thread, stop_event, threads, joiners>>

syncVars == <<now, last_request_time, request_lock, cached_token, token_lock, task_pc,
              wake, request_time>>

\* the state of the other services: polygon ingest, the routes table, the
\* Pub/Sub listener and the throttled sync tasks
serviceVars == <<ingestVars, routeVars, listenerVars, syncVars>>

stretchVars == <<road_sequence, visited, current_road_id, t_visited, sequence, t_break>>

\* ---------------------------------------------------------------- helpers
Abs(x) == IF x < 0 THEN -x ELSE x

Max(a, b) == IF a > b THEN a ELSE b

RECURSIVE SortedSeq(_)
\* list(s) for a Python set s of small ints
SortedSeq(S) ==
    IF S = {} THEN <<>>
    ELSE LET m == CHOOSE x \in S : \A y \in S : x <= y
         IN <<m>> \o SortedSeq(S \ {m})

Range(s) == { s[k] : k \in 1..Len(s) }

Reverse(s) == [k \in 1..Len(s) |-> s[Len(s) + 1 - k]]

NoDuplicates(s) == \A a, b \in 1..Len(s) : a # b => s[a] # s[b]

\* ---------------------------------------------------------- the roads table
RoadIds == 1..NRoads
Lats == 0..MaxLat
Lngs == 0..MaxLng
PriorityValues == {"A", "B"}
Tolerances == 1..MaxTol

RoadRows ==
    [start_lat : Lats, start_lng : Lngs, end_lat : Lats, end_lng : Lngs,
     priority : PriorityValues, is_enabled : BOOLEAN, deleted : BOOLEAN]

\* r.id IN roads AND deleted_at IS NULL
Live(id) == id \in DOMAIN roads /\ ~roads[id].deleted

\* ABS(a_lat - b_lat) < tol AND ABS(a_lng - b_lng) < tol
Near(a_lat, a_lng, b_lat, b_lng, tol) ==
    Abs(a_lat - b_lat) < tol /\ Abs(a_lng - b_lng) < tol

\* {priority_clause}: no clause for None or an empty list
PriorityClause(r, priorities) ==
    priorities = {} \/ roads[r].priority \in priorities

\* AND r.deleted_at IS NULL
Undeleted(r) == ~roads[r].deleted

\* rows of the start_connections / end_connections CTE for one target endpoint
EndpointConnections(road_id, t_lat, t_lng, tol, priorities) ==
    LET Hit(r) ==
            /\ r # road_id
            /\ Undeleted(r)
            /\ PriorityClause(r, priorities)
            /\ \/ Near(roads[r].start_lat, roads[r].start_lng, t_lat, t_lng, tol)
               \/ Near(roads[r].end_lat, roads[r].end_lng, t_lat, t_lng, tol)
        Row(r) ==
            IF Near(roads[r].start_lat, roads[r].start_lng, t_lat, t_lng, tol)
            THEN [road_id |-> r, connection_point |-> "start",
                  distance_meters |-> (Abs(roads[r].start_lat - t_lat)
                                       + Abs(roads[r].start_lng - t_lng)) * 111000]
            ELSE [road_id |-> r, connection_point |-> "end",
                  distance_meters |-> (Abs(roads[r].end_lat - t_lat)
                                       + Abs(roads[r].end_lng - t_lng)) * 111000]
        ids == SortedSeq({ r \in DOMAIN roads : Hit(r) })
    IN [k \in 1..Len(ids) |-> Row(ids[k])]

RECURSIVE GroupMembers(_, _, _, _)
\* the inner loop of _detect_bidirectional_pairs_at_endpoint: the roads after
\* road_id in road_ids that are not processed and are its reverse
GroupMembers(road_id, rest, processed, tol) ==
    IF rest = <<>> THEN <<>>
    ELSE LET other_id == Head(rest)
             start_matches_end ==
                 Near(roads[road_id].start_lat, roads[road_id].start_lng,
                      roads[other_id].end_lat, roads[other_id].end_lng, tol)
             end_matches_start ==
                 Near(roads[road_id].end_lat, roads[road_id].end_lng,
                      roads[other_id].start_lat, roads[other_id].start_lng, tol)
         IN IF other_id = road_id \/ other_id \in processed
            THEN GroupMembers(road_id, Tail(rest), processed, tol)
            ELSE IF start_matches_end /\ end_matches_start
            THEN <<other_id>> \o GroupMembers(road_id, Tail(rest), processed, tol)
            ELSE GroupMembers(road_id, Tail(rest), processed, tol)

RECURSIVE DetectGroups(_, _, _, _)
DetectGroups(todo, road_ids, processed, tol) ==
    IF todo = <<>> THEN <<>>
    ELSE LET road_id == Head(todo)
         IN IF road_id \in processed
            THEN DetectGroups(Tail(todo), road_ids, processed, tol)
            ELSE LET group == <<road_id>> \o
                              GroupMembers(road_id, road_ids, processed \cup {road_id}, tol)
                 IN <<group>> \o
                    DetectGroups(Tail(todo), road_ids, processed \cup Range(group), tol)

\* _detect_bidirectional_pairs_at_endpoint(road_ids, project_id, tolerance_degrees)
\* every id passed in is a row of the table, so the endpoint map is complete
DetectBidirectionalPairsAtEndpoint(road_ids, tol) ==
    IF road_ids = <<>> THEN <<>>
    ELSE IF Len(road_ids) = 1 THEN << <<road_ids[1]>> >>
    ELSE DetectGroups(road_ids, road_ids, {}, tol)

\* connections['connections']['start'] and ['end'] of get_road_connections_sql
StartConnections(road_id, tol, priorities) ==
    IF Live(road_id)
    THEN EndpointConnections(road_id, roads[road_id].start_lat, roads[road_id].start_lng,
                             tol, priorities)
    ELSE <<>>

EndConnections(road_id, tol, priorities) ==
    IF Live(road_id)
    THEN EndpointConnections(road_id, roads[road_id].end_lat, roads[road_id].end_lng,
                             tol, priorities)
    ELSE <<>>

ConnRoadIds(conns) == { conns[k].road_id : k \in 1..Len(conns) }

\* len([p for p in pairs if any(r in bidirectional_with_target for r in p)])
PairsTouching(pairs, bidirectional_with_target) ==
    Cardinality({ k \in 1..Len(pairs) : Range(pairs[k]) \cap bidirectional_with_target # {} })

UniqueCountKeepingMirror(ids, bidirectional_with_target, tol) ==
    Len(DetectBidirectionalPairsAtEndpoint(SortedSeq(ids), tol))

\* the unique-road count of one endpoint after collapsing bidirectional pairs
\* and excluding the roads that connect to the target at both endpoints
UniqueCount(ids, bidirectional_with_target, tol) ==
    LET pairs == DetectBidirectionalPairsAtEndpoint(SortedSeq(ids), tol)
    IN IF bidirectional_with_target # {}
       THEN Max(0, Len(pairs) - PairsTouching(pairs, bidirectional_with_target))
       ELSE Len(pairs)

\* get_road_connections_sql(road_id, project_id, tolerance_degrees, priorities)
GetRoadConnectionsSql(road_id, tol, priorities) ==
    LET start_connections == StartConnections(road_id, tol, priorities)
        end_connections == EndConnections(road_id, tol, priorities)
        start_road_ids == ConnRoadIds(start_connections)
        end_road_ids == ConnRoadIds(end_connections)
        bidirectional_with_target == start_road_ids \cap end_road_ids
        unique_start_roads == UniqueCount(start_road_ids, bidirectional_with_target, tol)
        unique_end_roads == UniqueCount(end_road_ids, bidirectional_with_target, tol)
        total_unique_roads == unique_start_roads + unique_end_roads
    IN [road_id |-> road_id,
        connections |-> [start |-> start_connections, end |-> end_connections],
        is_intersection |-> total_unique_roads > 2,
        total_connections |-> Len(start_connections) + Len(end_connections)]

\* ------------------------------------------------------- stretch_road_sql
\* the values stretch_road_sql derives from the seed's connections
StretchSetup(road_id, tol, priorities) ==
    LET start_connections == StartConnections(road_id, tol, priorities)
        end_connections == EndConnections(road_id, tol, priorities)
        start_road_ids == ConnRoadIds(start_connections)
        end_road_ids == ConnRoadIds(end_connections)
        bidirectional_with_target == start_road_ids \cap end_road_ids
    IN [start_connections |-> start_connections,
        end_connections |-> end_connections,
        unique_start_count |-> UniqueCount(start_road_ids, bidirectional_with_target, tol),
        unique_end_count |-> UniqueCount(end_road_ids, bidirectional_with_target, tol),
        unique_start_roads |-> start_road_ids \ bidirectional_with_target,
        unique_end_roads |-> end_road_ids \ bidirectional_with_target]

\* the road picked to start a direction: the first of unique_roads whose
\* connection_point is the wanted one, else the first of unique_roads
PickNextRoad(unique_roads, conns, wanted) ==
    LET oriented == { rid \in unique_roads :
                        \E k \in 1..Len(conns) :
                            conns[k].road_id = rid /\ conns[k].connection_point = wanted }
    IN IF oriented # {} THEN SortedSeq(oriented)[1] ELSE SortedSeq(unique_roads)[1]

\* unique_unvisited of one iteration of _traverse_linear_sql
UniqueUnvisited(road_id, seen, tol, priorities) ==
    LET connections == GetRoadConnectionsSql(road_id, tol, priorities)
        all_connected_roads ==
            ConnRoadIds(connections.connections.start) \cup
            ConnRoadIds(connections.connections.end)
    IN all_connected_roads \ seen

\* the dictionary stretch_road_sql returns, for a finished road_sequence
StretchResult(road_id, seq, tol, priorities) ==
    LET s == StretchSetup(road_id, tol, priorities)
        InTable(rid) == rid \in DOMAIN roads
        first_road_id == seq[1]
        last_road_id == seq[Len(seq)]
        start_type == IF Cardinality(s.unique_start_roads) > 1
                      THEN "intersection" ELSE "dead_end"
        end_type == IF Cardinality(s.unique_end_roads) > 1
                    THEN "intersection" ELSE "dead_end"
    IN [roads |-> SelectSeq(seq, InTable),
        total_count |-> Len(SelectSeq(seq, InTable)),
        endpoints |->
            [start |-> IF Live(first_road_id)
                       THEN <<roads[first_road_id].start_lat,
                              roads[first_road_id].start_lng, start_type>>
                       ELSE <<"None", "None", start_type>>,
             end |-> IF Live(last_road_id)
                     THEN <<roads[last_road_id].end_lat,
                            roads[last_road_id].end_lng, end_type>>
                     ELSE <<"None", "None", end_type>>],
        is_intersection_start |-> Cardinality(s.unique_start_roads) > 1,
        is_intersection_end |-> Cardinality(s.unique_end_roads) > 1]

\* stretch_road_sql up to the decision to traverse backward; request is the
\* HTTP request the call serves
StretchStart(road_id, max_depth, tol, priorities, request) ==
    /\ pc = "idle"
    /\ op' = [name |-> "stretch_road_sql", road_id |-> road_id, max_depth |-> max_depth,
              tolerance_degrees |-> tol, priorities |-> priorities, request |-> request]
    /\ road_sequence' = <<>>
    /\ visited' = {road_id}
    /\ LET s == StretchSetup(road_id, tol, priorities)
       IN IF s.unique_start_count = 1 /\ s.unique_start_roads # {}
          THEN /\ current_road_id' =
                      PickNextRoad(s.unique_start_roads, s.start_connections, "end")
               /\ t_visited' = {road_id}
               /\ sequence' = <<>>
               /\ t_break' = FALSE
               /\ pc' = "backward"
          ELSE /\ pc' = "seed"
               /\ UNCHANGED <<current_road_id, t_visited, sequence, t_break>>
    /\ UNCHANGED <<roads, fetchVars, serviceVars, segVars, ret>>

\* a call that no route made
NoRequest == [route |-> "none"]

\* a direct call of stretch_road_sql
StretchCall(road_id, max_depth, tol, priorities) ==
    StretchStart(road_id, max_depth, tol, priorities, NoRequest)

\* tolerance_degrees of the three routes: the default unless tolerance_meters
\* is truthy (neither None, written <<>>, nor 0), else tolerance_meters /
\* 111000.0; a grid step is 10 m, so the result in grid units is
\* tolerance_meters / 10
ToleranceDegrees(tolerance_meters) ==
    IF tolerance_meters # <<>> /\ tolerance_meters[1] # 0
    THEN tolerance_meters[1] \div 10
    ELSE COORDINATE_TOLERANCE_DEGREES

\* GET /roads/stretch/{road_id}: stretch_to_intersection up to the traversal
StretchToIntersection(road_id, tolerance_meters, priorities) ==
    StretchStart(road_id, DefaultMaxDepth, ToleranceDegrees(tolerance_meters), priorities,
                 [route |-> "stretch_to_intersection", tolerance_meters |-> tolerance_meters])

\* the StretchResponse stretch_to_intersection builds from the result
StretchResponse(result, road_id) ==
    [success |-> TRUE,
     data |-> [stretched_roads |-> result.roads,
               total_count |-> result.total_count,
               endpoints |-> result.endpoints,
               initial_road_id |-> road_id]]

LoopGuardOffByOne(seq, max_depth) == Len(seq) <= max_depth

\* while len(sequence) < max_depth
LoopGuard(seq, max_depth) == Len(seq) < max_depth

VisitedNotUpdated(seen, backward) == seen

\* visited.update(backward)
VisitedAfterBackward(seen, backward) == seen \cup Range(backward)

\* one iteration of the while loop of _traverse_linear_sql
TraverseStep ==
    /\ pc \in {"backward", "forward"}
    /\ ~t_break
    /\ LoopGuard(sequence, op.max_depth)
    /\ IF current_road_id \in t_visited
       THEN /\ t_break' = TRUE
            /\ UNCHANGED <<current_road_id, t_visited, sequence>>
       ELSE /\ t_visited' = t_visited \cup {current_road_id}
            /\ sequence' = Append(sequence, current_road_id)
            /\ LET unique_unvisited ==
                       UniqueUnvisited(current_road_id, t_visited \cup {current_road_id},
                                       op.tolerance_degrees, op.priorities)
               IN IF Cardinality(unique_unvisited) # 1
                  THEN /\ t_break' = TRUE
                       /\ UNCHANGED current_road_id
                  ELSE /\ current_road_id' = SortedSeq(unique_unvisited)[1]
                       /\ UNCHANGED t_break
    /\ UNCHANGED <<roads, fetchVars, serviceVars, segVars, pc, op, ret, road_sequence, visited>>

BackwardNotReversed(backward) == backward

\* road_sequence = list(reversed(backward))
ReversedBackward(backward) == Reverse(backward)

\* _traverse_linear_sql returns its sequence to stretch_road_sql
TraverseReturn ==
    /\ pc \in {"backward", "forward"}
    /\ t_break \/ ~LoopGuard(sequence, op.max_depth)
    /\ IF pc = "backward"
       THEN /\ road_sequence' = ReversedBackward(sequence)
            /\ visited' = VisitedAfterBackward(visited, sequence)
            /\ pc' = "seed"
       ELSE /\ road_sequence' = road_sequence \o sequence
            /\ UNCHANGED visited
            /\ pc' = "finish"
    /\ UNCHANGED <<roads, fetchVars, serviceVars, segVars, op, ret, current_road_id, t_visited, sequence, t_break>>

\* road_sequence.append(road_id) and the decision to traverse forward
AppendSeed ==
    /\ pc = "seed"
    /\ road_sequence' = Append(road_sequence, op.road_id)
    /\ LET s == StretchSetup(op.road_id, op.tolerance_degrees, op.priorities)
       IN IF s.unique_end_count = 1 /\ s.unique_end_roads # {}
          THEN /\ current_road_id' =
                      PickNextRoad(s.unique_end_roads, s.end_connections, "start")
               /\ t_visited' = visited
               /\ sequence' = <<>>
               /\ t_break' = FALSE
               /\ pc' = "forward"
          ELSE /\ pc' = "finish"
               /\ UNCHANGED <<current_road_id, t_visited, sequence, t_break>>
    /\ UNCHANGED <<roads, fetchVars, serviceVars, segVars, op, ret, visited>>

\* the rest of stretch_road_sql: fetch the rows, classify the endpoints, return
StretchFinish ==
    /\ pc = "finish"
    /\ LET result == StretchResult(op.road_id, road_sequence, op.tolerance_degrees,
                                   op.priorities)
       IN ret' = IF op.request.route = "stretch_to_intersection"
                 THEN StretchResponse(result, op.road_id)
                 ELSE result
    /\ pc' = "done"
    /\ UNCHANGED <<roads, fetchVars, serviceVars, segVars, op, stretchVars>>

\* a request for get_road_connections_sql
ConnectionsCall(road_id, tol, priorities) ==
    /\ pc = "idle"
    /\ op' = [name |-> "get_road_connections_sql", road_id |-> road_id,
              tolerance_degrees |-> tol, priorities |-> priorities]
    /\ ret' = GetRoadConnectionsSql(road_id, tol, priorities)
    /\ pc' = "done"
    /\ UNCHANGED <<roads, fetchVars, serviceVars, segVars, stretchVars>>

\* a call of _detect_bidirectional_pairs_at_endpoint on ids of the table
DetectCall(road_ids, tol) ==
    /\ pc = "idle"
    /\ op' = [name |-> "_detect_bidirectional_pairs_at_endpoint", road_ids |-> road_ids,
              tolerance_degrees |-> tol]
    /\ ret' = [groups |-> DetectBidirectionalPairsAtEndpoint(road_ids, tol)]
    /\ pc' = "done"
    /\ UNCHANGED <<roads, fetchVars, serviceVars, segVars, stretchVars>>

\* ------------------------------------------------- validate_continuity_sql
\* connectivity_map[road_id]: the connected roads that are in the selection
ConnectedAnywhere(connected, road_ids) == connected

\* if conn['road_id'] in road_ids
ConnectedInSelection(connected, road_ids) == connected \cap Range(road_ids)

ConnectivityMap(road_ids, tol) ==
    [road_id \in Range(road_ids) |->
        LET connections == GetRoadConnectionsSql(road_id, tol, {})
        IN SortedSeq(ConnectedInSelection(
               ConnRoadIds(connections.connections.start) \cup
               ConnRoadIds(connections.connections.end), road_ids))]

RECURSIVE BfsVisited(_, _, _)
\* the while-queue loop of validate_continuity_sql; returns visited
BfsVisited(seen, queue, connectivity_map) ==
    IF queue = <<>> THEN seen
    ELSE LET current == Head(queue)
             Fresh(n) == n \notin seen
             neighbours == IF current \in DOMAIN connectivity_map
                           THEN connectivity_map[current] ELSE <<>>
             fresh == SelectSeq(neighbours, Fresh)
         IN BfsVisited(seen \cup Range(fresh), Tail(queue) \o fresh, connectivity_map)

RECURSIVE FindPathOrder(_, _, _)
\* _find_path_order(start_road, connectivity_map, visited)
FindPathOrder(start_road, connectivity_map, seen) ==
    IF start_road \in seen THEN <<>>
    ELSE LET seen2 == seen \cup {start_road}
             Fresh(n) == n \notin seen2
             neighbours == IF start_road \in DOMAIN connectivity_map
                           THEN connectivity_map[start_road] ELSE <<>>
             fresh == SelectSeq(neighbours, Fresh)
         IN IF fresh = <<>> THEN <<start_road>>
            ELSE <<start_road>> \o FindPathOrder(Head(fresh), connectivity_map, seen2)

\* validate_continuity_sql(road_ids, project_id, tolerance_degrees)
ValidateContinuitySql(road_ids, tol) ==
    IF road_ids = <<>>
    THEN [is_continuous |-> FALSE, suggested_order |-> <<>>,
          connected_count |-> 0, total_count |-> 0]
    ELSE IF Len(road_ids) = 1
    THEN [is_continuous |-> TRUE, suggested_order |-> road_ids,
          connected_count |-> 1, total_count |-> 1]
    ELSE LET connectivity_map == ConnectivityMap(road_ids, tol)
             seen == BfsVisited({road_ids[1]}, <<road_ids[1]>>, connectivity_map)
             is_continuous == Cardinality(seen) = Len(road_ids)
         IN [is_continuous |-> is_continuous,
             suggested_order |-> IF is_continuous
                                 THEN FindPathOrder(road_ids[1], connectivity_map, {})
                                 ELSE <<>>,
             connected_count |-> Cardinality(seen),
             total_count |-> Len(road_ids)]

\* a request for validate_continuity_sql
ValidateCall(road_ids, tol) ==
    /\ pc = "idle"
    /\ op' = [name |-> "validate_continuity_sql", road_ids |-> road_ids,
              tolerance_degrees |-> tol]
    /\ ret' = ValidateContinuitySql(road_ids, tol)
    /\ pc' = "done"
    /\ UNCHANGED <<roads, fetchVars, serviceVars, segVars, stretchVars>>

\* GET /roads/{road_id}/connections: get_road_connections
GetRoadConnections(road_id, tolerance_meters) ==
    /\ pc = "idle"
    /\ op' = [name |-> "get_road_connections_sql", road_id |-> road_id,
              tolerance_degrees |-> ToleranceDegrees(tolerance_meters), priorities |-> {},
              request |-> [route |-> "get_road_connections",
                           tolerance_meters |-> tolerance_meters]]
    /\ ret' = [success |-> TRUE,
               data |-> GetRoadConnectionsSql(road_id, ToleranceDegrees(tolerance_meters), {})]
    /\ pc' = "done"
    /\ UNCHANGED <<roads, fetchVars, serviceVars, segVars, stretchVars>>

\* POST /roads/validate-continuity: validate_road_continuity
ValidateRoadContinuity(road_ids, gap_tolerance_meters) ==
    /\ pc = "idle"
    /\ op' = [name |-> "validate_continuity_sql", road_ids |-> road_ids,
              tolerance_degrees |-> ToleranceDegrees(gap_tolerance_meters),
              request |-> [route |-> "validate_road_continuity",
                           tolerance_meters |-> gap_tolerance_meters]]
    /\ ret' = IF road_ids = <<>>
              THEN [success |-> FALSE, status_code |-> 400]
              ELSE [success |-> TRUE,
                    data |-> ValidateContinuitySql(road_ids,
                                                   ToleranceDegrees(gap_tolerance_meters))]
    /\ pc' = "done"
    /\ UNCHANGED <<roads, fetchVars, serviceVars, segVars, stretchVars>>

\* ------------------------------------------------------ get_stretched_road
\* find_next_road(conn, current_road, ..., exclude_ids, direction); 0 is None
FindNextRoad(current_road, priority_list, exclude_ids, direction) ==
    LET cur == roads[current_road]
        target_lat == IF direction = "forward" THEN cur.end_lat ELSE cur.start_lat
        target_lng == IF direction = "forward" THEN cur.end_lng ELSE cur.start_lng
        Candidate(r) ==
            /\ ~roads[r].deleted
            /\ roads[r].priority \in priority_list
            /\ r \notin exclude_ids
            /\ roads[r].is_enabled
            /\ \/ Near(roads[r].start_lat, roads[r].start_lng, target_lat, target_lng, EPSILON)
               \/ Near(roads[r].end_lat, roads[r].end_lng, target_lat, target_lng, EPSILON)
        is_mirror(r) ==
            \/ /\ Near(roads[r].start_lat, roads[r].start_lng, cur.end_lat, cur.end_lng, EPSILON)
               /\ Near(roads[r].end_lat, roads[r].end_lng, cur.start_lat, cur.start_lng, EPSILON)
            \/ /\ Near(roads[r].start_lat, roads[r].start_lng, cur.start_lat, cur.start_lng, EPSILON)
               /\ Near(roads[r].end_lat, roads[r].end_lng, cur.end_lat, cur.end_lng, EPSILON)
        road_connects_at_start(r) ==
            Near(roads[r].start_lat, roads[r].start_lng, target_lat, target_lng, EPSILON)
        road_connects_at_end(r) ==
            Near(roads[r].end_lat, roads[r].end_lng, target_lat, target_lng, EPSILON)
        Valid(r) ==
            /\ Candidate(r)
            /\ ~is_mirror(r)
            /\ IF direction = "forward"
               THEN road_connects_at_start(r) /\ ~road_connects_at_end(r)
               ELSE road_connects_at_end(r) /\ ~road_connects_at_start(r)
        valid_candidates == { r \in DOMAIN roads : Valid(r) }
    IN IF priority_list = {} THEN 0
       ELSE IF Cardinality(valid_candidates) = 1
       THEN CHOOSE r \in valid_candidates : TRUE
       ELSE 0

RECURSIVE StretchChain(_, _, _, _)
\* one "while True" loop of get_stretched_road: the roads added in one
\* direction, in the order they are found
StretchChain(current_road, priority_list, selected_road_ids, direction) ==
    LET next_road == FindNextRoad(current_road, priority_list, selected_road_ids, direction)
    IN IF next_road = 0 THEN <<>>
       ELSE <<next_road>> \o
            StretchChain(next_road, priority_list, selected_road_ids \cup {next_road},
                         direction)

\* get_stretched_road(road_id, db_project_id, priority_list)
GetStretchedRoad(road_id, priority_list) ==
    IF ~Live(road_id)
    THEN [success |-> FALSE, message |-> "not found"]
    ELSE LET forward == StretchChain(road_id, priority_list, {road_id}, "forward")
             backward == StretchChain(road_id, priority_list,
                                      {road_id} \cup Range(forward), "backward")
             road_chain == Reverse(backward) \o <<road_id>> \o forward
         IN [success |-> TRUE,
             stretched_roads |-> road_chain,
             total_count |-> Len(road_chain),
             endpoints |-> [start |-> "intersection", end |-> "intersection"],
             initial_road_id |-> road_id]

\* a request for get_stretched_road (POST /roads/stretch)
GetStretchedCall(road_id, priority_list) ==
    /\ pc = "idle"
    /\ op' = [name |-> "get_stretched_road", road_id |-> road_id,
              priority_list |-> priority_list]
    /\ ret' = GetStretchedRoad(road_id, priority_list)
    /\ pc' = "done"
    /\ UNCHANGED <<roads, fetchVars, serviceVars, segVars, stretchVars>>

\* POST /roads/stretch: stretch_roads returns what get_stretched_road returns
StretchRoads(road_id, priority_list) ==
    /\ pc = "idle"
    /\ op' = [name |-> "get_stretched_road", road_id |-> road_id,
              priority_list |-> priority_list, request |-> [route |-> "stretch_roads"]]
    /\ ret' = GetStretchedRoad(road_id, priority_list)
    /\ pc' = "done"
    /\ UNCHANGED <<roads, fetchVars, serviceVars, segVars, stretchVars>>

\* ----------------------------------------------------- are_roads_connected
\* the largest k with k * k <= n
ISqrt(n) == CHOOSE k \in 0..n : k * k <= n /\ (k + 1) * (k + 1) > n

\* haversine_distance(lat1, lon1, lat2, lon2) in metres.  Over the few grid
\* steps of the model the great circle is the straight line; a grid step is
\* 10 m and the result is rounded down to a whole metre.
HaversineDistance(lat1, lon1, lat2, lon2) ==
    ISqrt(100 * ((lat1 - lat2) * (lat1 - lat2) + (lon1 - lon2) * (lon1 - lon2)))

\* are_points_connected(p1, p2, tolerance_meters); a point is <<lng, lat>>
ArePointsConnected(p1, p2, tolerance_meters) ==
    LET distance == HaversineDistance(p1[2], p1[1], p2[2], p2[1])
    IN [is_connected |-> distance <= tolerance_meters, distance |-> distance]

\* get_endpoints(coordinates): <<start, end>>, or <<>> for (None, None)
GetEndpoints(coordinates) ==
    IF Len(coordinates) < 2 THEN <<>>
    ELSE <<coordinates[1], coordinates[Len(coordinates)]>>

MinOfSet(S) == CHOOSE x \in S : \A y \in S : x <= y

\* are_roads_connected(road1_coords, road2_coords, tolerance_meters)
AreRoadsConnected(road1_coords, road2_coords, tolerance_meters) ==
    LET e1 == GetEndpoints(road1_coords)
        e2 == GetEndpoints(road2_coords)
    IN IF e1 = <<>> \/ e2 = <<>>
       THEN [connected |-> FALSE, connection_type |-> "None",
             distance |-> "None", connection_point |-> "None"]
       ELSE LET connections ==
                    << <<"start-start", e1[1], e2[1]>>,
                       <<"start-end", e1[1], e2[2]>>,
                       <<"end-start", e1[2], e2[1]>>,
                       <<"end-end", e1[2], e2[2]>> >>
                Hit(k) == ArePointsConnected(connections[k][2], connections[k][3],
                                             tolerance_meters).is_connected
                Dist(k) == ArePointsConnected(connections[k][2], connections[k][3],
                                              tolerance_meters).distance
            IN IF \E k \in 1..4 : Hit(k)
               THEN LET first == MinOfSet({ k \in 1..4 : Hit(k) })
                    IN [connected |-> TRUE,
                        connection_type |-> connections[first][1],
                        distance |-> Dist(first),
                        connection_point |-> connections[first][2]]
               ELSE [connected |-> FALSE, connection_type |-> "None",
                     distance |-> MinOfSet({ Dist(k) : k \in 1..4 }),
                     connection_point |-> "None"]

\* parse_polyline of a road of the table: its first and last coordinate are
\* the start and end columns; a road that is not in the table has no
\* coordinates
RoadCoords(r) ==
    IF r \in DOMAIN roads
    THEN << <<roads[r].start_lng, roads[r].start_lat>>,
            <<roads[r].end_lng, roads[r].end_lat>> >>
    ELSE <<>>

\* a call of are_roads_connected
AreRoadsConnectedCall(road1_coords, road2_coords, tolerance_meters) ==
    /\ pc = "idle"
    /\ op' = [name |-> "are_roads_connected", road1_coords |-> road1_coords,
              road2_coords |-> road2_coords, tolerance_meters |-> tolerance_meters]
    /\ ret' = AreRoadsConnected(road1_coords, road2_coords, tolerance_meters)
    /\ pc' = "done"
    /\ UNCHANGED <<roads, fetchVars, serviceVars, segVars, stretchVars>>

\* --------------------------------------------- segment_polyline_by_distance
\* A coordinate is a position on one meridian, in kilometres of arc, so the
\* geodesic distance of two coordinates is the absolute difference.  The
\* distances of the model are whole kilometres, far above the 1e-9 of the
\* code: "x > 1e-9" is x > 0 and "abs(x - y) < 1e-9" is x = y.

\* GEOD.inv(...)[2] / 1000.0
GeodDistKm(p1, p2) == Abs(p1 - p2)

\* interpolate_geodesic(p1, p2, fraction), the fraction given as num / den
InterpolateGeodesic(p1, p2, num, den) ==
    IF p2 >= p1
    THEN p1 + (GeodDistKm(p1, p2) * num) \div den
    ELSE p1 - (GeodDistKm(p1, p2) * num) \div den

AccumulatedNotAdded(acc, remaining) == acc

\* accumulated += remaining_dist
AccumulatedAfterFit(acc, remaining) == acc + remaining

LastNeverKept(segment) == FALSE

\* if len(current_segment) > 1
KeepLast(segment) == Len(segment) > 1

\* segment_polyline_by_distance(coords, distance_km) up to the for loop
SegmentCall(coords, distance_km) ==
    /\ pc = "idle"
    /\ op' = [name |-> "segment_polyline_by_distance", coords |-> coords,
              distance_km |-> distance_km]
    /\ IF Len(coords) < 2
       THEN /\ ret' = IF coords # <<>> THEN <<coords>> ELSE <<>>
            /\ pc' = "done"
            /\ UNCHANGED segVars
       ELSE /\ segments' = <<>>
            /\ current_segment' = <<coords[1]>>
            /\ accumulated' = 0
            /\ edge_i' = 2
            /\ cut_ends' = {}
            /\ pc' = "seg_for"
            /\ UNCHANGED <<ret, current_start, remaining_dist>>
    /\ UNCHANGED <<roads, fetchVars, serviceVars, stretchVars>>

\* the head of one iteration of "for i in range(1, len(coords))"
SegForEdge ==
    /\ pc = "seg_for"
    /\ edge_i <= Len(op.coords)
    /\ current_start' = op.coords[edge_i - 1]
    /\ remaining_dist' = GeodDistKm(op.coords[edge_i - 1], op.coords[edge_i])
    /\ pc' = "seg_while"
    /\ UNCHANGED <<roads, fetchVars, serviceVars, op, ret, stretchVars, segments, current_segment,
                   accumulated, edge_i, cut_ends>>

\* while remaining_dist > 1e-9, branch "the rest of this edge fits"
SegWhileFit ==
    /\ pc = "seg_while"
    /\ remaining_dist > 0
    /\ remaining_dist <= op.distance_km - accumulated
    /\ remaining_dist' = 0
    /\ LET p2 == op.coords[edge_i]
           filled == Append(current_segment, p2)
           acc == AccumulatedAfterFit(accumulated, remaining_dist)
       IN IF acc = op.distance_km
          THEN /\ segments' = Append(segments, filled)
               /\ current_segment' = <<p2>>
               /\ accumulated' = 0
          ELSE /\ current_segment' = filled
               /\ accumulated' = acc
               /\ UNCHANGED segments
    /\ UNCHANGED <<roads, fetchVars, serviceVars, pc, op, ret, stretchVars, edge_i, current_start, cut_ends>>

\* more pieces than any path of the model has kilometres: the model follows a
\* loop that keeps cutting no further than this
MaxPieces == MaxPosition * MaxPoints

\* while remaining_dist > 1e-9, branch "need to cut"
SegWhileCut ==
    /\ pc = "seg_while"
    /\ remaining_dist > 0
    /\ remaining_dist > op.distance_km - accumulated
    /\ Len(segments) < MaxPieces
    /\ LET space_in_segment == op.distance_km - accumulated
           cut_point == InterpolateGeodesic(current_start, op.coords[edge_i],
                                            space_in_segment, remaining_dist)
       IN /\ segments' = Append(segments, Append(current_segment, cut_point))
          /\ cut_ends' = cut_ends \cup {Len(segments) + 1}
          /\ current_segment' = <<cut_point>>
          /\ accumulated' = 0
          /\ current_start' = cut_point
          /\ remaining_dist' = remaining_dist - space_in_segment
    /\ UNCHANGED <<roads, fetchVars, serviceVars, pc, op, ret, stretchVars, edge_i>>

\* the while loop ends; the for loop moves to the next edge
SegWhileExit ==
    /\ pc = "seg_while"
    /\ ~(remaining_dist > 0)
    /\ edge_i' = edge_i + 1
    /\ pc' = "seg_for"
    /\ UNCHANGED <<roads, fetchVars, serviceVars, op, ret, stretchVars, segments, current_segment,
                   accumulated, current_start, remaining_dist, cut_ends>>

\* after the for loop: add the last segment if it has content, and return
SegReturn ==
    /\ pc = "seg_for"
    /\ edge_i > Len(op.coords)
    /\ segments' = IF KeepLast(current_segment)
                   THEN Append(segments, current_segment)
                   ELSE segments
    /\ ret' = segments'
    /\ pc' = "done"
    /\ UNCHANGED <<roads, fetchVars, serviceVars, op, stretchVars, current_segment, accumulated, edge_i,
                   current_start, remaining_dist, cut_ends>>

\* -------------------------------------------------- find_intersection_points
\* Coordinates are <<x, y>> in whole metres on a plane whose x axis carries
\* the route; the degree distances of the code are these distances times
\* DEG_PER_METER, so every comparison with a tolerance is the same in metres.
\* Distances are compared by their squares.

\* intersection_points.py PROXIMITY_TOLERANCE_METERS
PROXIMITY_TOLERANCE_METERS == 5
\* intersection_points.py EXCLUSION_TOLERANCE_METERS
EXCLUSION_TOLERANCE_METERS == 15

\* original_route_geom: a straight route along the x axis
RouteCoords == << <<0, 0>>, <<RouteLength, 0>> >>

\* pt.distance(existing), squared
DistSq(p, q) == (p[1] - q[1]) * (p[1] - q[1]) + (p[2] - q[2]) * (p[2] - q[2])

\* original_route_geom.distance(pt), squared
RouteDistSq(pt) ==
    LET first == RouteCoords[1]
        last == RouteCoords[Len(RouteCoords)]
        nearest == IF pt[1] < first[1] THEN first
                   ELSE IF pt[1] > last[1] THEN last
                   ELSE <<pt[1], 0>>
    IN DistSq(pt, nearest)

\* main_route_buffer.covers(fetched_road_geom): the buffer of a straight route
\* is convex, so it covers a road exactly when it covers its vertices
CoveredByRouteBuffer(road_coords) ==
    \A k \in 1..Len(road_coords) :
        RouteDistSq(road_coords[k]) <= EXCLUSION_TOLERANCE_METERS * EXCLUSION_TOLERANCE_METERS

\* candidate_roads: the fetched roads with two or more coordinates that the
\* exclusion buffer of the route does not cover
CandidateRoads(fetched) ==
    LET Kept(road_coords) == Len(road_coords) >= 2 /\ ~CoveredByRouteBuffer(road_coords)
    IN SelectSeq(fetched, Kept)

\* dist < proximity_deg (and dist < dedupe_tolerance)
WithinProximity(dist_sq) ==
    dist_sq < PROXIMITY_TOLERANCE_METERS * PROXIMITY_TOLERANCE_METERS

RECURSIVE FinalIntersectionPoints(_)
\* final_intersection_points: per candidate road its start point and then its
\* end point, each when it lies within the proximity tolerance of the route
FinalIntersectionPoints(candidate_roads) ==
    IF candidate_roads = <<>> THEN <<>>
    ELSE LET road_geom == Head(candidate_roads)
             start_pt == road_geom[1]
             end_pt == road_geom[Len(road_geom)]
         IN (IF WithinProximity(RouteDistSq(start_pt)) THEN <<start_pt>> ELSE <<>>)
            \o (IF WithinProximity(RouteDistSq(end_pt)) THEN <<end_pt>> ELSE <<>>)
            \o FinalIntersectionPoints(Tail(candidate_roads))

RECURSIVE UniquePoints(_, _)
\* unique_points: a point is kept unless an already kept point is closer to it
\* than the tolerance
UniquePoints(points, unique_points) ==
    IF points = <<>> THEN unique_points
    ELSE LET pt == Head(points)
             is_duplicate == \E k \in 1..Len(unique_points) :
                                 WithinProximity(DistSq(pt, unique_points[k]))
         IN UniquePoints(Tail(points),
                         IF is_duplicate THEN unique_points ELSE Append(unique_points, pt))

\* filtered_points: the unique points that are not within the tolerance of the
\* start or the end point of the route
FilteredPoints(unique_points) ==
    LET Kept(pt) == /\ ~WithinProximity(DistSq(pt, RouteCoords[1]))
                    /\ ~WithinProximity(DistSq(pt, RouteCoords[Len(RouteCoords)]))
    IN SelectSeq(unique_points, Kept)

\* the GeoJSON find_intersection_points returns for the fetched roads
IntersectionGeoJson(fetched_roads_response) ==
    [type |-> "FeatureCollection",
     features |-> FilteredPoints(UniquePoints(
                      FinalIntersectionPoints(CandidateRoads(fetched_roads_response)), <<>>))]

\* the roads the collaborator can return, each the list of its coordinates:
\* a piece of the route itself, a side road that starts on the route four
\* metres from its start, two side roads that start on the route three metres
\* apart, a road away from the route, and a road with one coordinate
RoadItems ==
    { << <<0, 0>>, <<10, 0>> >>,
      << <<4, 0>>, <<4, 30>> >>,
      << <<8, 0>>, <<8, 30>> >>,
      << <<11, 0>>, <<11, 30>> >>,
      << <<8, 30>>, <<11, 30>> >>,
      << <<5, 50>> >> }

\* response_json.get('roads', []): the roads of one page
Pages == UNION { [1..n -> RoadItems] : n \in 0..MaxPageRoads }

\* response_json.get('nextPageToken'): 0 is no token
PageTokens == 0..1

\* find_intersection_points is called: fetch_roads_from_api starts with no
\* roads and no page token
FindIntersectionPoints ==
    /\ pc = "idle"
    /\ op' = [name |-> "find_intersection_points"]
    /\ pc' = "fetch"
    /\ all_roads' = <<>>
    /\ page_token' = 0
    /\ requests' = 0
    /\ fetch_failed' = "none"
    /\ UNCHANGED <<roads, ret, stretchVars, segVars, serviceVars>>

\* one pass of the while loop whose request is answered with status 200: the
\* roads of the page are appended, and the loop ends when no token follows
FetchPageOk(fetched_roads, next_token) ==
    /\ pc = "fetch"
    /\ requests < MaxPages
    /\ requests' = requests + 1
    /\ all_roads' = all_roads \o fetched_roads
    /\ page_token' = next_token
    /\ pc' = IF next_token = 0 THEN "compute" ELSE "fetch"
    /\ UNCHANGED <<roads, op, ret, fetch_failed, stretchVars, segVars, serviceVars>>

\* one pass whose request is answered with a status other than 200: break
FetchPageStatusError ==
    /\ pc = "fetch"
    /\ requests < MaxPages
    /\ requests' = requests + 1
    /\ fetch_failed' = "status"
    /\ pc' = "compute"
    /\ UNCHANGED <<roads, op, ret, all_roads, page_token, stretchVars, segVars, serviceVars>>

\* one pass whose request raises: the except branch logs and breaks
FetchPageException ==
    /\ pc = "fetch"
    /\ requests < MaxPages
    /\ requests' = requests + 1
    /\ fetch_failed' = "exception"
    /\ pc' = "compute"
    /\ UNCHANGED <<roads, op, ret, all_roads, page_token, stretchVars, segVars, serviceVars>>

\* fetch_roads_from_api has returned all_roads: the rest of
\* find_intersection_points computes the crossings and returns the GeoJSON
FindIntersectionPointsReturn ==
    /\ pc = "compute"
    /\ ret' = IntersectionGeoJson(all_roads)
    /\ pc' = "done"
    /\ UNCHANGED <<roads, op, fetchVars, stretchVars, segVars, serviceVars>>

\* ----------------------------------------------------- polygon ingest
\* the row create_roads_sqlite inserts for a road of two or more coordinates
InsertedRow(coords) ==
    [start_lat |-> coords[1][2], start_lng |-> coords[1][1],
     end_lat |-> coords[Len(coords)][2], end_lng |-> coords[Len(coords)][1],
     priority |-> "A", is_enabled |-> TRUE, deleted |-> FALSE]

RECURSIVE BatchValues(_)
\* batch_values of create_roads_sqlite: a road of fewer than two coordinates
\* goes to failed_to_add
BatchValues(road_batch) ==
    IF road_batch = <<>> THEN <<>>
    ELSE (IF Len(Head(road_batch)) < 2 THEN <<>> ELSE <<InsertedRow(Head(road_batch))>>)
         \o BatchValues(Tail(road_batch))

\* create_roads_sqlite(road_batch): the bulk insert, committed by engine.begin()
CreateRoadsSqlite(table, road_batch) == table \o BatchValues(road_batch)

\* POST /ingest: _process_polygon_create starts to iterate fetch_roads_generator
ProcessPolygonCreate ==
    /\ pc = "idle"
    /\ op' = [name |-> "_process_polygon_create"]
    /\ pc' = "gen_fetch"
    /\ page_token' = 0
    /\ total_fetched' = 0
    /\ requests' = 0
    /\ UNCHANGED <<roads, ret, all_roads, fetch_failed, stretchVars, segVars, routeVars,
                   listenerVars, syncVars>>

\* one pass of the while loop of fetch_roads_generator whose request is
\* answered with status 200.  A batch that is not empty is yielded, the loop
\* body of _process_polygon_create inserts it, and only then the generator
\* counts it and tests the limit
GeneratorPageOk(batch_roads, next_token) ==
    /\ pc = "gen_fetch"
    /\ requests < MaxPages
    /\ requests' = requests + 1
    /\ roads' = IF batch_roads # <<>> THEN CreateRoadsSqlite(roads, batch_roads) ELSE roads
    /\ total_fetched' = total_fetched + Len(batch_roads)
    /\ page_token' = next_token
    /\ IF total_fetched' > ROAD_LIMIT
       THEN /\ ret' = [status_code |-> 400,
                       detail |-> "Too many roads returned by API (limit is 5000)."]
            /\ pc' = "done"
       ELSE /\ pc' = IF next_token = 0 THEN "respond" ELSE "gen_fetch"
            /\ UNCHANGED ret
    /\ UNCHANGED <<op, all_roads, fetch_failed, stretchVars, segVars, routeVars,
                   listenerVars, syncVars>>

\* one pass whose request is answered with a status other than 200: the
\* exception raised passes through _process_polygon_create, and create_polygon
\* answers 500
GeneratorStatusError ==
    /\ pc = "gen_fetch"
    /\ requests < MaxPages
    /\ requests' = requests + 1
    /\ fetch_failed' = "status"
    /\ ret' = [status_code |-> 500, detail |-> "Failed to create polygon"]
    /\ pc' = "done"
    /\ UNCHANGED <<roads, op, all_roads, page_token, stretchVars, segVars, serviceVars>>

\* one pass whose request raises
GeneratorException ==
    /\ pc = "gen_fetch"
    /\ requests < MaxPages
    /\ requests' = requests + 1
    /\ fetch_failed' = "exception"
    /\ ret' = [status_code |-> 500, detail |-> "Failed to create polygon"]
    /\ pc' = "done"
    /\ UNCHANGED <<roads, op, all_roads, page_token, stretchVars, segVars, serviceVars>>

\* the generator is exhausted: _process_polygon_create answers 404 when no
\* road was added and the PolygonCreateResponse otherwise
ProcessPolygonCreateReturn ==
    /\ pc = "respond"
    /\ ret' = IF roads = <<>>
              THEN [status_code |-> 404, detail |-> "No roads found within the polygon area"]
              ELSE [status_code |-> 200, roads_created |-> Len(roads),
                    total_roads |-> total_fetched]
    /\ pc' = "done"
    /\ UNCHANGED <<roads, op, fetchVars, serviceVars, stretchVars, segVars>>

\* ------------------------------------------ segment_routes_for_visualization
\* a row of the routes table; deleted_at 0 is NULL, parent_route_id 0 is NULL
RouteRows ==
    [project_id : 1..2, tag : {"a", "b"}, length : 1..MaxRouteLength,
     is_enabled : BOOLEAN, deleted_at : 0..MaxStamp, updated_at : {MaxStamp},
     parent_route_id : 0..1]

\* CURRENT_TIMESTAMP of the request: later than every stored timestamp
CurrentTimestamp == MaxStamp + 1

\* the WHERE clause of the SELECT: the routes to segment
SelectedForSegmentation(row, project_id, tag, distance_km) ==
    /\ row.project_id = project_id
    /\ row.deleted_at = 0
    /\ row.is_enabled
    /\ row.tag = tag
    /\ row.length > distance_km
    /\ row.parent_route_id = 0

\* the WHERE clause of the UPDATE
UpdatedBySegmentation(row, project_id, tag, distance_km) ==
    /\ row.project_id = project_id
    /\ row.tag = tag
    /\ row.length > distance_km

\* segment_routes_for_visualization(project_id, tag, distance_km): the SELECT
\* and the UPDATE are committed together, then 404 is raised when no row was
\* selected; the features are pieces of the selected rows' polylines and are
\* left out of the returned value here, which keeps the uuids and the count
SegmentRoutesForVisualization(project_id, tag, distance_km) ==
    /\ pc = "idle"
    /\ op' = [name |-> "segment_routes_for_visualization", project_id |-> project_id,
              tag |-> tag, distance_km |-> distance_km]
    /\ LET rows == { r \in DOMAIN routes :
                       SelectedForSegmentation(routes[r], project_id, tag, distance_km) }
       IN /\ routes' = [r \in DOMAIN routes |->
                           IF UpdatedBySegmentation(routes[r], project_id, tag, distance_km)
                           THEN [routes[r] EXCEPT !.deleted_at = CurrentTimestamp,
                                                  !.updated_at = CurrentTimestamp]
                           ELSE routes[r]]
          /\ ret' = IF rows = {}
                    THEN [status_code |-> 404, detail |-> "No routes found to segment"]
                    ELSE [status_code |-> 200, parent_route_uuids |-> SortedSeq(rows),
                          count |-> Cardinality(rows)]
    /\ pc' = "done"
    /\ UNCHANGED <<roads, fetchVars, segVars, stretchVars, ingestVars, listenerVars, syncVars>>

\* ------------------------------------------------------- Pub/Sub listener
\* The route handlers are coroutines without an await, so one handler runs at
\* a time; time.sleep(2) of start_listener blocks the event loop, and only the
\* listener threads and the join_thread threads run meanwhile.

\* listener_thread.is_alive()
IsAlive(t) == threads[t] # "dead"

\* the listener threads that are in their main loop and have not seen the
\* stop signal
Listening == { t \in DOMAIN threads : threads[t] = "listening" }

\* POST /start-listener up to time.sleep(2)
StartListener ==
    /\ pc = "idle"
    /\ op' = [name |-> "start_listener"]
    /\ IF listener_thread # 0 /\ IsAlive(listener_thread)
       THEN /\ ret' = [status |-> "already_running"]
            /\ UNCHANGED <<pc, listenerVars>>
       ELSE /\ Len(threads) < MaxThreads
            /\ stop_event' = FALSE
            /\ threads' = Append(threads, "starting")
            /\ listener_thread' = Len(threads) + 1
            /\ pc' = "start_sleep"
            /\ UNCHANGED <<ret, joiners>>
    /\ UNCHANGED <<roads, fetchVars, segVars, stretchVars, ingestVars, routeVars, syncVars>>

\* POST /start-listener after time.sleep(2): is the thread still alive; the
\* call on listener_thread fails when join_thread has set it to None
StartListenerCheck ==
    /\ pc = "start_sleep"
    /\ ret' = IF listener_thread = 0 THEN [status |-> "error", status_code |-> 500]
              ELSE IF ~IsAlive(listener_thread) THEN [status |-> "error", status_code |-> 400]
              ELSE [status |-> "started"]
    /\ pc' = "idle"
    /\ UNCHANGED <<roads, op, fetchVars, segVars, stretchVars, serviceVars>>

\* POST /stop-listener: set the stop signal and start a join_thread thread
StopListener ==
    /\ pc = "idle"
    /\ op' = [name |-> "stop_listener"]
    /\ IF listener_thread = 0 \/ ~IsAlive(listener_thread)
       THEN /\ ret' = [status |-> "not_running"]
            /\ UNCHANGED listenerVars
       ELSE /\ joiners < MaxJoiners
            /\ stop_event' = TRUE
            /\ joiners' = joiners + 1
            /\ ret' = [status |-> "stopping"]
            /\ UNCHANGED <<listener_thread, threads>>
    /\ UNCHANGED <<roads, pc, fetchVars, segVars, stretchVars, ingestVars, routeVars, syncVars>>

\* join_thread: listener_thread.join(timeout=0.1) returns whether or not the
\* listener has ended, and the finally clause sets listener_thread to None
JoinThread ==
    /\ joiners > 0
    /\ joiners' = joiners - 1
    /\ listener_thread' = 0
    /\ UNCHANGED <<roads, pc, op, ret, stop_event, threads, fetchVars, segVars, stretchVars,
                   ingestVars, routeVars, syncVars>>

\* listen_to_pubsub reaches its main event loop
ListenerSubscribes(t) ==
    /\ t \in DOMAIN threads
    /\ threads[t] = "starting"
    /\ threads' = [threads EXCEPT ![t] = "listening"]
    /\ UNCHANGED <<roads, pc, op, ret, listener_thread, stop_event, joiners, fetchVars,
                   segVars, stretchVars, ingestVars, routeVars, syncVars>>

\* listen_to_pubsub raises before the main loop; listener_runner logs the error
ListenerFails(t) ==
    /\ t \in DOMAIN threads
    /\ threads[t] = "starting"
    /\ threads' = [threads EXCEPT ![t] = "dead"]
    /\ UNCHANGED <<roads, pc, op, ret, listener_thread, stop_event, joiners, fetchVars,
                   segVars, stretchVars, ingestVars, routeVars, syncVars>>

\* while not stop_event.is_set(): the loop ends when the signal is seen
ListenerSeesStop(t) ==
    /\ t \in DOMAIN threads
    /\ threads[t] = "listening"
    /\ stop_event
    /\ threads' = [threads EXCEPT ![t] = "finalizing"]
    /\ UNCHANGED <<roads, pc, op, ret, listener_thread, stop_event, joiners, fetchVars,
                   segVars, stretchVars, ingestVars, routeVars, syncVars>>

\* the finally clause of listen_to_pubsub: stop_event.set(), then the thread ends
ListenerFinalizes(t) ==
    /\ t \in DOMAIN threads
    /\ threads[t] = "finalizing"
    /\ stop_event' = TRUE
    /\ threads' = [threads EXCEPT ![t] = "dead"]
    /\ UNCHANGED <<roads, pc, op, ret, listener_thread, joiners, fetchVars,
                   segVars, stretchVars, ingestVars, routeVars, syncVars>>

\* ------------------------------------------------------------ build_stretches
\* A route is a record of start_lat, start_lng, end_lat, end_lng and length;
\* its uuid is its position in the list routes.

\* compute_angle(A, B) as <<abs(cross), dot>>: the angle is atan2 of the two
ComputeAngle(A, B) ==
    LET ax == A.end_lat - A.start_lat
        ay == A.end_lng - A.start_lng
        bx == B.end_lat - B.start_lat
        by == B.end_lng - B.start_lng
    IN <<Abs(ax * by - ay * bx), ax * bx + ay * by>>

\* angle >= 30: atan2(c, d) is below 30 degrees iff d > 0 and 3 c^2 < d^2, or
\* c = 0 and d = 0 (atan2(0, 0) is 0); no angle of the grid rounds to 30.00
AtLeast30(angle) ==
    ~(\/ angle[1] = 0 /\ angle[2] = 0
      \/ angle[2] > 0 /\ 3 * angle[1] * angle[1] < angle[2] * angle[2])

\* a1 < a2 for two angles below 90 degrees (atan2(0, 0) is 0)
AngleLess(a1, a2) ==
    LET d1 == IF a1[2] = 0 THEN 1 ELSE a1[2]
        d2 == IF a2[2] = 0 THEN 1 ELSE a2[2]
    IN a1[1] * d2 < a2[1] * d1

\* build_graphs: forward_graph[a], the uuids b in the order of routes with b
\* starting where a ends, b not ending where a starts, and an angle below 30
ForwardGraph(routes_list, a) ==
    LET A == routes_list[a]
        Edge(b) ==
            LET B == routes_list[b]
            IN /\ B.start_lat = A.end_lat /\ B.start_lng = A.end_lng
               /\ ~(B.end_lat = A.start_lat /\ B.end_lng = A.start_lng)
               /\ ~AtLeast30(ComputeAngle(A, B))
    IN SelectSeq([k \in 1..Len(routes_list) |-> k], Edge)

\* build_graphs: reverse_graph[b] as a set
ReverseGraph(routes_list, b) ==
    { a \in 1..Len(routes_list) : \E k \in 1..Len(ForwardGraph(routes_list, a)) :
                                      ForwardGraph(routes_list, a)[k] = b }

\* polyline_length_meters of a straight polyline, squared
PolylineLengthSq(R) ==
    (R.end_lat - R.start_lat) * (R.end_lat - R.start_lat)
    + (R.end_lng - R.start_lng) * (R.end_lng - R.start_lng)

\* choose_best_next(options, parent): 0 is None.  The sorts are stable, so
\* each filter keeps the order of options and the last sort picks the first
\* option of the shortest polyline
ChooseBestNext(routes_list, current, options, parent) ==
    IF options = <<>> THEN 0
    ELSE LET Angle(b) == ComputeAngle(routes_list[current], routes_list[b])
             ParentAngle(b) == ComputeAngle(routes_list[parent], routes_list[b])
             Least1(b) == \A k \in 1..Len(options) : ~AngleLess(Angle(options[k]), Angle(b))
             filtered == SelectSeq(options, Least1)
             Least2(b) == \A k \in 1..Len(filtered) :
                              routes_list[filtered[k]].length >= routes_list[b].length
             filtered2 == SelectSeq(filtered, Least2)
             Least3(b) == \A k \in 1..Len(filtered2) :
                              ~AngleLess(ParentAngle(filtered2[k]), ParentAngle(b))
             filtered3 == IF parent # 0 THEN SelectSeq(filtered2, Least3) ELSE filtered2
             Least4(b) == \A k \in 1..Len(filtered3) :
                              PolylineLengthSq(routes_list[filtered3[k]])
                                  >= PolylineLengthSq(routes_list[b])
         IN IF Len(filtered) = 1 THEN filtered[1]
            ELSE IF Len(filtered2) = 1 THEN filtered2[1]
            ELSE SelectSeq(filtered3, Least4)[1]

NextNeverUsed(next_id, used) == FALSE

\* if next_id in used: break
NextIsUsed(next_id, used) == next_id \in used

RECURSIVE WalkStretch(_, _, _, _)
\* the while loop of build_stretches: the stretch that grows from current
WalkStretch(routes_list, stretch, parent, used) ==
    LET current == stretch[Len(stretch)]
        best == ChooseBestNext(routes_list, current, ForwardGraph(routes_list, current), parent)
    IN IF best = 0 THEN stretch
       ELSE IF NextIsUsed(best, used) THEN stretch
       ELSE WalkStretch(routes_list, Append(stretch, best), current, used \cup {best})

RECURSIVE StretchesFrom(_, _, _, _)
\* the for loop over start_nodes, and with grow = FALSE the one over
\* remaining_routes
StretchesFrom(routes_list, nodes, used, grow) ==
    IF nodes = <<>> THEN <<>>
    ELSE LET rid == Head(nodes)
         IN IF rid \in used THEN StretchesFrom(routes_list, Tail(nodes), used, grow)
            ELSE LET stretch == IF grow
                                THEN WalkStretch(routes_list, <<rid>>, 0, used \cup {rid})
                                ELSE <<rid>>
                 IN <<stretch>> \o StretchesFrom(routes_list, Tail(nodes),
                                                 used \cup Range(stretch), grow)

\* build_stretches(routes, forward_graph, reverse_graph) on the graphs of
\* build_graphs(routes)
BuildStretches(routes_list) ==
    LET ids == [k \in 1..Len(routes_list) |-> k]
        IsStart(r) == ReverseGraph(routes_list, r) = {}
        grown == StretchesFrom(routes_list, SelectSeq(ids, IsStart), {}, TRUE)
        used == UNION { Range(grown[k]) : k \in 1..Len(grown) }
        Unused(r) == r \notin used
    IN grown \o StretchesFrom(routes_list, SelectSeq(ids, Unused), used, FALSE)

\* build_graphs and build_stretches on the routes that fetch_routes returned
BuildStretchesCall ==
    /\ pc = "idle"
    /\ op.name = "fetch_routes"
    /\ op' = [name |-> "build_stretches", routes |-> op.routes]
    /\ ret' = [stretches |-> BuildStretches(op.routes)]
    /\ pc' = "done"
    /\ UNCHANGED <<roads, fetchVars, segVars, stretchVars, serviceVars>>

\* --------------------------------------------------------------- throttle_qps
\* create_wrapper and delete_wrapper are tasks of one event loop: a task runs
\* until it awaits something that is not ready.  There are fewer tasks than
\* MAX_PARALLEL, so `async with sem` never waits, and the API request starts
\* in the step in which get_cached_oauth_token returns.

\* the wrapper after throttle_qps has returned: get_cached_oauth_token returns
\* the cached token at once and the request starts; without a cached token the
\* task refreshes it under token_lock, or waits for token_lock
AfterThrottle(t) ==
    IF cached_token
    THEN /\ task_pc' = [task_pc EXCEPT ![t] = "requested"]
         /\ request_time' = [request_time EXCEPT ![t] = now]
         /\ UNCHANGED token_lock
    ELSE IF token_lock = 0
    THEN /\ task_pc' = [task_pc EXCEPT ![t] = "refreshing"]
         /\ token_lock' = t
         /\ UNCHANGED request_time
    ELSE /\ task_pc' = [task_pc EXCEPT ![t] = "token_wait"]
         /\ UNCHANGED <<token_lock, request_time>>

\* throttle_qps up to asyncio.sleep: the task takes request_lock and either
\* sleeps for wait_time with the lock held or stamps last_request_time
ThrottleQps(t) ==
    /\ task_pc[t] = "start"
    /\ request_lock = 0
    /\ LET elapsed == now - last_request_time
           wait_time == Max(0, MIN_INTERVAL - elapsed)
       IN IF wait_time > 0
          THEN /\ request_lock' = t
               /\ task_pc' = [task_pc EXCEPT ![t] = "sleeping"]
               /\ wake' = [wake EXCEPT ![t] = now + wait_time]
               /\ UNCHANGED <<last_request_time, token_lock, request_time>>
          ELSE /\ last_request_time' = now
               /\ AfterThrottle(t)
               /\ UNCHANGED <<request_lock, wake>>
    /\ UNCHANGED <<roads, pc, op, ret, fetchVars, segVars, stretchVars, ingestVars, routeVars,
                   listenerVars, now, cached_token>>

\* asyncio.sleep(wait_time) ends: last_request_time = monotonic(), the lock is
\* released and throttle_qps returns
ThrottleWake(t) ==
    /\ task_pc[t] = "sleeping"
    /\ now >= wake[t]
    /\ last_request_time' = now
    /\ request_lock' = 0
    /\ AfterThrottle(t)
    /\ UNCHANGED <<roads, pc, op, ret, fetchVars, segVars, stretchVars, ingestVars, routeVars,
                   listenerVars, now, cached_token, wake>>

\* get_oauth_token returns: the token is cached, token_lock is released and
\* the request of the refreshing task starts
TokenRefreshed(t) ==
    /\ task_pc[t] = "refreshing"
    /\ cached_token' = TRUE
    /\ token_lock' = 0
    /\ task_pc' = [task_pc EXCEPT ![t] = "requested"]
    /\ request_time' = [request_time EXCEPT ![t] = now]
    /\ UNCHANGED <<roads, pc, op, ret, fetchVars, segVars, stretchVars, ingestVars, routeVars,
                   listenerVars, now, last_request_time, request_lock, wake>>

\* a task that waited for token_lock gets it and checks the cache again
TokenLockAcquired(t) ==
    /\ task_pc[t] = "token_wait"
    /\ token_lock = 0
    /\ AfterThrottle(t)
    /\ UNCHANGED <<roads, pc, op, ret, fetchVars, segVars, stretchVars, ingestVars, routeVars,
                   listenerVars, now, last_request_time, request_lock, cached_token, wake>>

\* monotonic() advances
Tick ==
    /\ now < MaxTime
    /\ now' = now + 1
    /\ UNCHANGED <<roads, pc, op, ret, fetchVars, segVars, stretchVars, ingestVars, routeVars,
                   listenerVars, last_request_time, request_lock, cached_token, token_lock,
                   task_pc, wake, request_time>>

\* ------------------------------------------------------------ specification
SeedIds == 1..(NRoads + 1)
MaxDepths == (1..MaxDepth) \cup {DefaultMaxDepth}
PriorityFilters == {{}, {"A"}}
ToleranceMeters == {10, DefaultToleranceMeters}

\* the attributes of a row a request does not single out
Plain(row) == row.is_enabled /\ ~row.deleted /\ row.priority = "A"

\* the locals of segment_polyline_by_distance before a call
SegIdle ==
    /\ segments = <<>>
    /\ current_segment = <<>>
    /\ accumulated = 0
    /\ edge_i = 0
    /\ current_start = 0
    /\ remaining_dist = 0
    /\ cut_ends = {}

\* the locals of fetch_roads_from_api before a call
FetchIdle ==
    /\ all_roads = <<>>
    /\ page_token = 0
    /\ requests = 0
    /\ fetch_failed = "none"

\* the other services before a request
ServiceIdle ==
    /\ total_fetched = 0
    /\ routes = <<>>
    /\ listener_thread = 0
    /\ stop_event = FALSE
    /\ threads = <<>>
    /\ joiners = 0
    /\ now = 0
    /\ last_request_time = 0
    /\ request_lock = 0
    /\ cached_token = FALSE
    /\ token_lock = 0
    /\ task_pc = <<>>
    /\ wake = <<>>
    /\ request_time = <<>>

\* a row that differs from a plain one in at most one attribute
OneOff(row) ==
    Cardinality({ a \in {"is_enabled", "deleted", "priority"} :
                    \/ a = "is_enabled" /\ ~row.is_enabled
                    \/ a = "deleted" /\ row.deleted
                    \/ a = "priority" /\ row.priority # "A" }) <= 1

\* a road runs between two different grid points
Distinct(row) == row.start_lat # row.end_lat \/ row.start_lng # row.end_lng

\* the sequences of distinct road ids
Selections ==
    UNION { { s \in [1..n -> SeedIds] : \A a, b \in 1..n : a # b => s[a] # s[b] }
            : n \in 0..NRoads }

\* the lists of distinct ids of the table
DetectLists == { s \in Selections : Range(s) \subseteq RoadIds }

Init ==
    /\ roads \in [RoadIds -> RoadRows]
    /\ \A r \in RoadIds : Distinct(roads[r])
    /\ \A r \in RoadIds : r < NRoads => Plain(roads[r])
    /\ OneOff(roads[NRoads])
    /\ pc = "idle"
    /\ op = [name |-> "none"]
    /\ ret = [name |-> "none"]
    /\ road_sequence = <<>>
    /\ visited = {}
    /\ current_road_id = 0
    /\ t_visited = {}
    /\ sequence = <<>>
    /\ t_break = FALSE
    /\ SegIdle
    /\ FetchIdle
    /\ ServiceIdle

Next ==
    \/ \E road_id \in SeedIds, max_depth \in MaxDepths, tol \in Tolerances,
          priorities \in PriorityFilters :
            StretchCall(road_id, max_depth, tol, priorities)
    \/ TraverseStep
    \/ TraverseReturn
    \/ AppendSeed
    \/ StretchFinish
    \/ \E road_id \in SeedIds, tol \in Tolerances, priorities \in PriorityFilters :
            ConnectionsCall(road_id, tol, priorities)
    \/ \E road_ids \in Selections, tol \in Tolerances : ValidateCall(road_ids, tol)
    \/ \E road_ids \in DetectLists, tol \in Tolerances : DetectCall(road_ids, tol)
    \/ \E road_id \in SeedIds, priority_list \in PriorityFilters :
            GetStretchedCall(road_id, priority_list)
    \/ \E a \in SeedIds : \E b \in SeedIds \ {a}, tolerance_meters \in ToleranceMeters :
            AreRoadsConnectedCall(RoadCoords(a), RoadCoords(b), tolerance_meters)

Spec == Init /\ [][Next]_vars

\* the tolerance a caller gives a route: None (<<>>) or a number of metres
ToleranceInputs == {<<>>} \cup { <<10 * t>> : t \in (-1)..MaxTol }

\* the selections a caller gives the continuity route
RouteSelections == { s \in Selections : Len(s) <= 2 }

\* the requests of the road connectivity routes
NextApi ==
    \/ \E road_id \in SeedIds, tolerance_meters \in ToleranceInputs,
          priorities \in PriorityFilters :
            StretchToIntersection(road_id, tolerance_meters, priorities)
    \/ TraverseStep
    \/ TraverseReturn
    \/ AppendSeed
    \/ StretchFinish
    \/ \E road_id \in SeedIds, tolerance_meters \in ToleranceInputs :
            GetRoadConnections(road_id, tolerance_meters)
    \/ \E road_ids \in RouteSelections, gap_tolerance_meters \in ToleranceInputs :
            ValidateRoadContinuity(road_ids, gap_tolerance_meters)
    \/ \E road_id \in SeedIds, priority_list \in PriorityFilters :
            StretchRoads(road_id, priority_list)

SpecApi == Init /\ [][NextApi]_vars

\* the coordinate sequences and targets given to segment_polyline_by_distance
Positions == 0..MaxPosition
CoordLists == UNION { [1..n -> Positions] : n \in 0..MaxPoints }
Targets == (-1)..MaxTarget

InitSeg ==
    /\ roads = <<>>
    /\ pc = "idle"
    /\ op = [name |-> "none"]
    /\ ret = [name |-> "none"]
    /\ road_sequence = <<>>
    /\ visited = {}
    /\ current_road_id = 0
    /\ t_visited = {}
    /\ sequence = <<>>
    /\ t_break = FALSE
    /\ SegIdle
    /\ FetchIdle
    /\ ServiceIdle

NextSeg ==
    \/ \E coords \in CoordLists, distance_km \in Targets : SegmentCall(coords, distance_km)
    \/ SegForEdge
    \/ SegWhileFit
    \/ SegWhileCut
    \/ SegWhileExit
    \/ SegReturn

SpecSeg == InitSeg /\ [][NextSeg]_vars

\* a sync run has created its tasks; the clock is at or after the first
\* interval and the token cache is valid or not
InitSync ==
    /\ roads = <<>>
    /\ pc = "idle"
    /\ op = [name |-> "none"]
    /\ ret = [name |-> "none"]
    /\ road_sequence = <<>>
    /\ visited = {}
    /\ current_road_id = 0
    /\ t_visited = {}
    /\ sequence = <<>>
    /\ t_break = FALSE
    /\ SegIdle
    /\ FetchIdle
    /\ total_fetched = 0
    /\ routes = <<>>
    /\ listener_thread = 0
    /\ stop_event = FALSE
    /\ threads = <<>>
    /\ joiners = 0
    /\ now \in 0..MIN_INTERVAL
    /\ last_request_time = 0
    /\ request_lock = 0
    /\ cached_token \in BOOLEAN
    /\ token_lock = 0
    /\ task_pc = [t \in 1..NTasks |-> "start"]
    /\ wake = [t \in 1..NTasks |-> 0]
    /\ request_time = [t \in 1..NTasks |-> -1]

NextSync ==
    \/ \E t \in 1..NTasks : ThrottleQps(t)
    \/ \E t \in 1..NTasks : ThrottleWake(t)
    \/ \E t \in 1..NTasks : TokenRefreshed(t)
    \/ \E t \in 1..NTasks : TokenLockAcquired(t)
    \/ Tick

SpecSync == InitSync /\ [][NextSync]_vars

\* the routes build_stretches is called on
StretchRoutes ==
    [start_lat : 0..MaxRouteLat, start_lng : 0..MaxRouteLng,
     end_lat : 0..MaxRouteLat, end_lng : 0..MaxRouteLng, length : 1..2]

\* fetch_routes has returned a list of routes
InitStretch ==
    /\ roads = <<>>
    /\ pc = "idle"
    /\ \E routes_list \in [1..NStretchRoutes -> StretchRoutes] :
           op = [name |-> "fetch_routes", routes |-> routes_list]
    /\ ret = [name |-> "none"]
    /\ road_sequence = <<>>
    /\ visited = {}
    /\ current_road_id = 0
    /\ t_visited = {}
    /\ sequence = <<>>
    /\ t_break = FALSE
    /\ SegIdle
    /\ FetchIdle
    /\ ServiceIdle

NextStretch == BuildStretchesCall

SpecStretch == InitStretch /\ [][NextStretch]_vars

\* start-listener and stop-listener requests interleaved with the steps of
\* the listener threads and of the join_thread threads
NextListener ==
    \/ StartListener
    \/ StartListenerCheck
    \/ StopListener
    \/ JoinThread
    \/ \E t \in 1..MaxThreads : ListenerSubscribes(t)
    \/ \E t \in 1..MaxThreads : ListenerFails(t)
    \/ \E t \in 1..MaxThreads : ListenerSeesStop(t)
    \/ \E t \in 1..MaxThreads : ListenerFinalizes(t)

SpecListener == InitSeg /\ [][NextListener]_vars

\* the routes table and one request to segment the routes of a project and tag
InitRoutes ==
    /\ roads = <<>>
    /\ pc = "idle"
    /\ op = [name |-> "none"]
    /\ ret = [name |-> "none"]
    /\ road_sequence = <<>>
    /\ visited = {}
    /\ current_road_id = 0
    /\ t_visited = {}
    /\ sequence = <<>>
    /\ t_break = FALSE
    /\ SegIdle
    /\ FetchIdle
    /\ total_fetched = 0
    /\ routes \in [1..NRoutes -> RouteRows]
    /\ listener_thread = 0
    /\ stop_event = FALSE
    /\ threads = <<>>
    /\ joiners = 0
    /\ now = 0
    /\ last_request_time = 0
    /\ request_lock = 0
    /\ cached_token = FALSE
    /\ token_lock = 0
    /\ task_pc = <<>>
    /\ wake = <<>>
    /\ request_time = <<>>

NextRoutes ==
    \E project_id \in 1..2, tag \in {"a", "b"}, distance_km \in 1..(MaxRouteLength - 1) :
        SegmentRoutesForVisualization(project_id, tag, distance_km)

SpecRoutes == InitRoutes /\ [][NextRoutes]_vars

\* stretch_road_sql on tables of NHopRoads plain roads, with the default depth
PlainRows == { row \in RoadRows : Distinct(row) /\ Plain(row) }

InitHop ==
    /\ roads \in [1..NHopRoads -> PlainRows]
    /\ pc = "idle"
    /\ op = [name |-> "none"]
    /\ ret = [name |-> "none"]
    /\ road_sequence = <<>>
    /\ visited = {}
    /\ current_road_id = 0
    /\ t_visited = {}
    /\ sequence = <<>>
    /\ t_break = FALSE
    /\ SegIdle
    /\ FetchIdle
    /\ ServiceIdle

NextHop ==
    \/ \E road_id \in 1..NHopRoads, tol \in Tolerances :
            StretchCall(road_id, DefaultMaxDepth, tol, {})
    \/ TraverseStep
    \/ TraverseReturn
    \/ AppendSeed
    \/ StretchFinish

SpecHop == InitHop /\ [][NextHop]_vars

\* the paged road fetches: one call of find_intersection_points or one polygon
\* ingest, the collaborator choosing the answer to each page request
NextFetch ==
    \/ FindIntersectionPoints
    \/ \E fetched_roads \in Pages, next_token \in PageTokens :
            FetchPageOk(fetched_roads, next_token)
    \/ FetchPageStatusError
    \/ FetchPageException
    \/ FindIntersectionPointsReturn
    \/ ProcessPolygonCreate
    \/ \E batch_roads \in Pages, next_token \in PageTokens :
            GeneratorPageOk(batch_roads, next_token)
    \/ GeneratorStatusError
    \/ GeneratorException
    \/ ProcessPolygonCreateReturn

SpecFetch == InitSeg /\ [][NextFetch]_vars

\* ================================================================ properties
StretchDone == pc = "done" /\ op.name = "stretch_road_sql"
StretchedDone == pc = "done" /\ op.name = "get_stretched_road"
ConnectionsDone == pc = "done" /\ op.name = "get_road_connections_sql"
ValidateDone == pc = "done" /\ op.name = "validate_continuity_sql"

\* two live roads with an endpoint of one within tolerance of an endpoint of
\* the other
Touch(a, b, tol) ==
    /\ a # b /\ Live(a) /\ Live(b)
    /\ \/ Near(roads[a].start_lat, roads[a].start_lng, roads[b].start_lat, roads[b].start_lng, tol)
       \/ Near(roads[a].start_lat, roads[a].start_lng, roads[b].end_lat, roads[b].end_lng, tol)
       \/ Near(roads[a].end_lat, roads[a].end_lng, roads[b].start_lat, roads[b].start_lng, tol)
       \/ Near(roads[a].end_lat, roads[a].end_lng, roads[b].end_lat, roads[b].end_lng, tol)

\* C1: the road sequence returned by stretch_road_sql, and the one returned by
\* get_stretched_road, contains no road id more than once, for every seed and
\* every roads table (cycles included).
C1_NoRepeatedRoad ==
    /\ StretchDone => NoDuplicates(ret.roads)
    /\ (StretchedDone /\ ret.success) => NoDuplicates(ret.stretched_roads)
    /\ NoDuplicates(road_sequence)

\* C1 witness: a finished stretch over three roads that close a cycle (the
\* last road of the stretch touches the first one)
C1_Witness ==
    /\ StretchDone
    /\ Len(ret.roads) >= 3
    /\ Touch(ret.roads[1], ret.roads[Len(ret.roads)], op.tolerance_degrees)

\* C2: stretch_road_sql terminates and each directional traversal appends at
\* most max_depth roads.  Every step of a stretch request strictly lowers a
\* rank that never goes below zero (so no request runs forever): inside the
\* loop of _traverse_linear_sql an iteration either appends one road or
\* breaks, and the sequence never grows beyond max_depth.
PcRank ==
    CASE pc = "idle" -> 6
      [] pc = "backward" -> 5
      [] pc = "seed" -> 4
      [] pc = "forward" -> 3
      [] pc = "finish" -> 2
      [] OTHER -> 1

TraverseMeasure ==
    IF pc \in {"backward", "forward"}
    THEN (op.max_depth - Len(sequence)) + (IF t_break THEN 0 ELSE 1)
    ELSE 0

StretchRank == PcRank * (DefaultMaxDepth + 2) + TraverseMeasure

C2_BoundedTraversal ==
    [][/\ pc' \in {"backward", "forward"} => Len(sequence') <= op'.max_depth
       /\ op'.name = "stretch_road_sql" =>
              /\ StretchRank' < StretchRank
              /\ TraverseMeasure' >= 0]_vars

\* C2 witness: a traversal stopped by max_depth while an unvisited road was
\* still ahead
C2_Witness ==
    /\ pc \in {"backward", "forward"}
    /\ ~t_break
    /\ Len(sequence) = op.max_depth
    /\ current_road_id \notin t_visited

\* a selection whose roads form a simple line: some ordering of it has every
\* consecutive pair touching and no other pair touching
IsSimpleLine(road_ids, tol) ==
    \E line \in [1..Len(road_ids) -> Range(road_ids)] :
        /\ Range(line) = Range(road_ids)
        /\ \A a, b \in 1..Len(line) :
               a < b => (Touch(line[a], line[b], tol) <=> b = a + 1)

\* the two end roads of a simple line: the ones touching at most one other
EndRoads(road_ids, tol) ==
    { r \in Range(road_ids) :
        Cardinality({ q \in Range(road_ids) : Touch(r, q, tol) }) <= 1 }

\* C3: for a selection of roads forming a simple line, in any order,
\* validate_continuity_sql returns is_continuous = true and a suggested_order
\* that contains all the roads and starts or ends at an end road of the line.
C3_LineOrderClaim ==
    (ValidateDone /\ Len(op.road_ids) >= 2
        /\ IsSimpleLine(op.road_ids, op.tolerance_degrees)) =>
        /\ ret.is_continuous
        /\ Len(ret.suggested_order) = Len(op.road_ids)
        /\ Range(ret.suggested_order) = Range(op.road_ids)
        /\ \/ ret.suggested_order[1] \in EndRoads(op.road_ids, op.tolerance_degrees)
           \/ ret.suggested_order[Len(ret.suggested_order)]
                  \in EndRoads(op.road_ids, op.tolerance_degrees)

\* the selected roads form one connected component of the touch graph
\* restricted to the selection
ConnectedWithin(S, tol) ==
    \A T \in SUBSET S :
        (T # {} /\ T # S) => \E a \in T, b \in S \ T : Touch(a, b, tol)

\* C4: for two or more distinct selected ids, is_continuous holds exactly when
\* the selection is one connected component of the adjacency graph restricted
\* to the selection, and connected_count = total_count iff is_continuous.
C4_ContinuousIffConnected ==
    (ValidateDone /\ Len(op.road_ids) >= 2) =>
        /\ ret.is_continuous <=> ConnectedWithin(Range(op.road_ids), op.tolerance_degrees)
        /\ (ret.connected_count = ret.total_count) <=> ret.is_continuous
        /\ ret.total_count = Len(op.road_ids)

\* C4 witness: two selected roads that do not touch, each touching a road
\* outside the selection, reported not continuous
C4_Witness ==
    /\ ValidateDone
    /\ Len(op.road_ids) = 2
    /\ ~Touch(op.road_ids[1], op.road_ids[2], op.tolerance_degrees)
    /\ \E x \in RoadIds \ Range(op.road_ids) :
           /\ Touch(op.road_ids[1], x, op.tolerance_degrees)
           /\ Touch(op.road_ids[2], x, op.tolerance_degrees)
    /\ ~ret.is_continuous

\* road b is the exact reverse of road a
ExactReverse(a, b) ==
    /\ a # b /\ Live(a) /\ Live(b)
    /\ roads[b].start_lat = roads[a].end_lat /\ roads[b].start_lng = roads[a].end_lng
    /\ roads[b].end_lat = roads[a].start_lat /\ roads[b].end_lng = roads[a].start_lng

\* road a has an exact reverse and no other live road touches a
OnlyItsReverse(a, tol) ==
    \E b \in RoadIds :
        /\ ExactReverse(a, b)
        /\ \A x \in RoadIds \ {a, b} : ~Touch(a, x, tol)

\* C5: a road whose only neighbour is its exact reverse has degree 0 at both
\* endpoints: get_road_connections_sql does not report an intersection, and
\* stretch_road_sql from it returns only the road itself with both ends
\* classified dead_end.
C5_ReverseIsNoNeighbour ==
    /\ (ConnectionsDone /\ OnlyItsReverse(op.road_id, op.tolerance_degrees)) =>
           ~ret.is_intersection
    /\ (StretchDone /\ OnlyItsReverse(op.road_id, op.tolerance_degrees)) =>
           /\ ret.roads = <<op.road_id>>
           /\ ret.endpoints.start[3] = "dead_end"
           /\ ret.endpoints.end[3] = "dead_end"
           /\ StretchSetup(op.road_id, op.tolerance_degrees, op.priorities).unique_start_count = 0
           /\ StretchSetup(op.road_id, op.tolerance_degrees, op.priorities).unique_end_count = 0

\* C5 witness: a finished stretch from a road whose reverse is in the table
\* and passes the priority filter
C5_Witness ==
    /\ StretchDone
    /\ OnlyItsReverse(op.road_id, op.tolerance_degrees)
    /\ ConnRoadIds(StartConnections(op.road_id, op.tolerance_degrees, op.priorities)) # {}

AreConnectedDone == pc = "done" /\ op.name = "are_roads_connected"

\* the road ids get_road_connections_sql reports, at either endpoint
Reported(result) ==
    ConnRoadIds(result.connections.start) \cup ConnRoadIds(result.connections.end)

\* C9: connectivity is symmetric: are_roads_connected(A, B, t) and
\* are_roads_connected(B, A, t) agree on connected, and B is among the
\* connections get_road_connections_sql reports for A iff A is among those it
\* reports for B.
C9_SymmetricClaim ==
    /\ AreConnectedDone =>
           ret.connected = AreRoadsConnected(op.road2_coords, op.road1_coords,
                                             op.tolerance_meters).connected
    /\ ConnectionsDone =>
           \A b \in RoadIds :
               b \in Reported(ret) <=>
               op.road_id \in Reported(GetRoadConnectionsSql(b, op.tolerance_degrees,
                                                             op.priorities))

SwapType(t) ==
    CASE t = "start-end" -> "end-start"
      [] t = "end-start" -> "start-end"
      [] OTHER -> t

\* C10: swapping the arguments of are_roads_connected swaps the roles in the
\* reported connection type: X-Y for (A, B, t) means Y-X for (B, A, t).
C10_SwappedTypeClaim ==
    (AreConnectedDone /\ ret.connected) =>
        AreRoadsConnected(op.road2_coords, op.road1_coords,
                          op.tolerance_meters).connection_type
            = SwapType(ret.connection_type)

SegmentDone == pc = "done" /\ op.name = "segment_polyline_by_distance"

RECURSIVE PathLengthKm(_)
\* the length of a coordinate sequence: the sum of its edge distances
PathLengthKm(c) ==
    IF Len(c) < 2 THEN 0
    ELSE GeodDistKm(c[1], c[2]) + PathLengthKm(Tail(c))

RECURSIVE SumLengths(_)
SumLengths(pieces) ==
    IF pieces = <<>> THEN 0
    ELSE PathLengthKm(Head(pieces)) + SumLengths(Tail(pieces))

\* C6: the pieces returned for a target T > 0 have lengths that sum to the
\* length of the path, every piece is at most T long, and only the last piece
\* may be shorter than T.
C6_LengthsConserved ==
    (SegmentDone /\ op.distance_km > 0) =>
        /\ SumLengths(ret) = PathLengthKm(op.coords)
        /\ \A k \in 1..Len(ret) : PathLengthKm(ret[k]) <= op.distance_km
        /\ \A k \in 1..(Len(ret) - 1) : PathLengthKm(ret[k]) = op.distance_km

\* C6 witness: a path cut into several pieces whose last piece is shorter
\* than the target
C6_Witness ==
    /\ SegmentDone
    /\ Len(ret) >= 3
    /\ PathLengthKm(ret[Len(ret)]) < op.distance_km
    /\ PathLengthKm(ret[Len(ret)]) > 0

RECURSIVE Rejoin(_, _)
\* the pieces from number k on, concatenated: the first point of every piece
\* after the first is the shared point and is merged away, and the last point
\* of a piece that ends in an inserted cut point is removed
Rejoin(pieces, k) ==
    IF k > Len(pieces) THEN <<>>
    ELSE LET piece == pieces[k]
             body == IF k = 1 THEN piece ELSE Tail(piece)
             kept == IF k \in cut_ends /\ body # <<>>
                     THEN SubSeq(body, 1, Len(body) - 1)
                     ELSE body
         IN kept \o Rejoin(pieces, k + 1)

\* C7: for every coordinate sequence of at least two points (repeated
\* consecutive points included) and every T > 0, the pieces concatenated in
\* order, with shared points merged and inserted cut points removed, are the
\* original sequence, and each piece starts where the previous one ended.
C7_ReconstructClaim ==
    (SegmentDone /\ Len(op.coords) >= 2 /\ op.distance_km > 0) =>
        /\ Rejoin(ret, 1) = op.coords
        /\ \A k \in 2..Len(ret) : ret[k][1] = ret[k - 1][Len(ret[k - 1])]

\* the least n with n * t >= l
CeilDiv(l, t) == (l + t - 1) \div t

\* C8: for a path of length L > 0 and a target T > 0 there are exactly
\* ceil(L / T) pieces; every piece but the last has length T and the last one
\* is the remainder, kept and not merged into the previous piece.
C8_PieceCount ==
    (SegmentDone /\ op.distance_km > 0 /\ PathLengthKm(op.coords) > 0) =>
        /\ Len(ret) = CeilDiv(PathLengthKm(op.coords), op.distance_km)
        /\ \A k \in 1..(Len(ret) - 1) : PathLengthKm(ret[k]) = op.distance_km
        /\ PathLengthKm(ret[Len(ret)])
               = PathLengthKm(op.coords) - (Len(ret) - 1) * op.distance_km
        /\ PathLengthKm(ret[Len(ret)]) > 0

\* C8 witness: a 10 km path cut at 3 km into four pieces, the last one 1 km
C8_Witness ==
    /\ SegmentDone
    /\ PathLengthKm(op.coords) = 10
    /\ op.distance_km = 3
    /\ Len(ret) = 4
    /\ PathLengthKm(ret[4]) = 1

\* roads a and b are a bidirectional pair: a.start matches b.end and a.end
\* matches b.start within tolerance
Mirror(a, b, tol) ==
    /\ a # b /\ Live(a) /\ Live(b)
    /\ Near(roads[a].start_lat, roads[a].start_lng, roads[b].end_lat, roads[b].end_lng, tol)
    /\ Near(roads[a].end_lat, roads[a].end_lng, roads[b].start_lat, roads[b].start_lng, tol)

\* the connected neighbours of road a at one of its endpoints, the mirror of a
\* left out
NeighboursAt(a, side, tol, priorities) ==
    LET conns == IF side = "start" THEN StartConnections(a, tol, priorities)
                 ELSE EndConnections(a, tol, priorities)
    IN { r \in ConnRoadIds(conns) : ~Mirror(a, r, tol) }

\* the least number of groups of mutual mirrors that cover the set N
GroupCount(N, tol) ==
    CHOOSE k \in 0..Cardinality(N) :
        LET Covers(n) == \E f \in [N -> 1..n] :
                \A x, y \in N : (x # y /\ f[x] = f[y]) => Mirror(x, y, tol)
        IN Covers(k) /\ \A j \in 0..(k - 1) : ~Covers(j)

\* the degree of road a at one endpoint: its neighbours there, counted after
\* bidirectional pairs are collapsed
Degree(a, side, tol, priorities) == GroupCount(NeighboursAt(a, side, tol, priorities), tol)

\* C11: when the seed has more than one distinct (post-mirror-collapse)
\* neighbour at one endpoint, stretch_road_sql adds no road on that side (the
\* seed is the outermost road there) and classifies that end as intersection.
C11_FirstHopIntersectionClaim ==
    (StretchDone /\ Live(op.road_id)) =>
        /\ Degree(op.road_id, "start", op.tolerance_degrees, op.priorities) > 1 =>
               /\ ret.roads[1] = op.road_id
               /\ ret.endpoints.start[3] = "intersection"
               /\ ret.is_intersection_start
        /\ Degree(op.road_id, "end", op.tolerance_degrees, op.priorities) > 1 =>
               /\ ret.roads[Len(ret.roads)] = op.road_id
               /\ ret.endpoints.end[3] = "intersection"
               /\ ret.is_intersection_end

\* the given endpoint of road r is within tolerance of an endpoint of road q
TouchesAt(r, side, q, tol) ==
    LET lat == IF side = "start" THEN roads[r].start_lat ELSE roads[r].end_lat
        lng == IF side = "start" THEN roads[r].start_lng ELSE roads[r].end_lng
    IN \/ Near(lat, lng, roads[q].start_lat, roads[q].start_lng, tol)
       \/ Near(lat, lng, roads[q].end_lat, roads[q].end_lng, tol)

\* the endpoint of the outermost road of a stretch that faces away from the
\* stretch: the one that does not touch the road next to it
FarSide(chain, side, tol) ==
    IF Len(chain) < 2 THEN side
    ELSE LET outer == IF side = "start" THEN chain[1] ELSE chain[Len(chain)]
             inner == IF side = "start" THEN chain[2] ELSE chain[Len(chain) - 1]
             at_start == TouchesAt(outer, "start", inner, tol)
             at_end == TouchesAt(outer, "end", inner, tol)
         IN IF at_start /\ ~at_end THEN "end"
            ELSE IF at_end /\ ~at_start THEN "start"
            ELSE side

\* the degree at the place where a stretch stops on one side
StopDegree(chain, side, tol, priorities) ==
    Degree(IF side = "start" THEN chain[1] ELSE chain[Len(chain)],
           FarSide(chain, side, tol), tol, priorities)

\* an endpoint kind agrees with the degree where the traversal stopped
KindMatches(kind, degree) ==
    /\ kind = "intersection" <=> degree > 1
    /\ kind = "dead_end" <=> degree = 0

\* C12: for a stretch longer than the seed alone, the endpoint kinds are those
\* of the place where the traversal stopped: intersection iff the outermost
\* road has more than one distinct neighbour at its far endpoint, dead_end iff
\* it has none; for stretch_road_sql and for get_stretched_road.
C12_EndpointKindClaim ==
    /\ (StretchDone /\ Len(ret.roads) >= 2 /\ \A k \in 1..Len(ret.roads) : Live(ret.roads[k])) =>
           /\ KindMatches(ret.endpoints.start[3],
                  StopDegree(ret.roads, "start", op.tolerance_degrees, op.priorities))
           /\ KindMatches(ret.endpoints.end[3],
                  StopDegree(ret.roads, "end", op.tolerance_degrees, op.priorities))
    /\ (StretchedDone /\ ret.success /\ Len(ret.stretched_roads) >= 2) =>
           /\ KindMatches(ret.endpoints.start,
                  StopDegree(ret.stretched_roads, "start", EPSILON, op.priority_list))
           /\ KindMatches(ret.endpoints.end,
                  StopDegree(ret.stretched_roads, "end", EPSILON, op.priority_list))

\* no two consecutive roads of the chain are mirrors of each other
NoConsecutiveMirrors(chain, tol) ==
    \A k \in 1..(Len(chain) - 1) : ~Mirror(chain[k], chain[k + 1], tol)

\* C13: the mirror of the current road is never taken as the next hop, so no
\* two consecutive roads of a stretch returned by stretch_road_sql or by
\* get_stretched_road are mirrors of each other.
C13_NoMirrorHopClaim ==
    /\ StretchDone => NoConsecutiveMirrors(ret.roads, op.tolerance_degrees)
    /\ (StretchedDone /\ ret.success) => NoConsecutiveMirrors(ret.stretched_roads, EPSILON)

DetectDone == pc = "done" /\ op.name = "_detect_bidirectional_pairs_at_endpoint"

\* the geometries of rows a and b are reverses of each other within tolerance
MutualMirrors(a, b, tol) ==
    /\ Near(roads[a].start_lat, roads[a].start_lng, roads[b].end_lat, roads[b].end_lng, tol)
    /\ Near(roads[a].end_lat, roads[a].end_lng, roads[b].start_lat, roads[b].start_lng, tol)

\* C14: in every group returned by _detect_bidirectional_pairs_at_endpoint any
\* two distinct roads are mirrors of each other, also when three or more roads
\* run between the same two endpoints.
C14_GroupInvariantClaim ==
    DetectDone =>
        \A g \in 1..Len(ret.groups) :
            \A x, y \in Range(ret.groups[g]) :
                x # y => MutualMirrors(x, y, op.tolerance_degrees)

\* C15: get_road_connections_sql reports is_intersection exactly when at least
\* one endpoint of the road has more than one distinct connected neighbour
\* after bidirectional pairs are collapsed.
C15_IntersectionIffClaim ==
    (ConnectionsDone /\ Live(op.road_id)) =>
        (ret.is_intersection <=>
            \/ Degree(op.road_id, "start", op.tolerance_degrees, op.priorities) > 1
            \/ Degree(op.road_id, "end", op.tolerance_degrees, op.priorities) > 1)

\* C16: for a target length <= 0 segment_polyline_by_distance ends with an
\* invalid-argument error and returns no pieces: for a path of two or more
\* points no piece is ever produced and no list of pieces is returned.
C16_NonPositiveTargetClaim ==
    (op.name = "segment_polyline_by_distance" /\ op.distance_km <= 0
        /\ Len(op.coords) >= 2) =>
        /\ segments = <<>>
        /\ pc = "done" => ret = <<>>

\* the request came through a route that takes a tolerance, and the caller
\* supplied one
ToleranceSupplied ==
    /\ op.name \in {"stretch_road_sql", "get_road_connections_sql", "validate_continuity_sql"}
    /\ op.request.route # "none"
    /\ op.request.tolerance_meters # <<>>

\* C17: a stretch, connections or continuity request with a caller-supplied
\* tolerance <= 0 is rejected (it is finished at once, without success, and no
\* query or traversal runs), and a supplied positive tolerance is the one the
\* query runs with.
C17_ToleranceRejectedClaim ==
    ToleranceSupplied =>
        IF op.request.tolerance_meters[1] <= 0
        THEN pc = "done" /\ ~ret.success
        ELSE op.tolerance_degrees * 10 = op.request.tolerance_meters[1]

\* C18: a stretch request whose seed is not a live road of the project ends
\* in a not-found outcome and never in a successful stretch result, for GET
\* /roads/stretch/{road_id} (stretch_road_sql) and for get_stretched_road.
C18_UnknownSeedClaim ==
    /\ (StretchDone /\ op.request.route = "stretch_to_intersection" /\ ~Live(op.road_id)) =>
           ~ret.success
    /\ (StretchedDone /\ ~Live(op.road_id)) => ~ret.success

\* -------------------------------------------------------------- C19, C20
\* find_intersection_points has returned
CrossingsDone == pc = "done" /\ op.name = "find_intersection_points"

\* the value returned is a crossing list
ReturnsCrossingList == ret.type = "FeatureCollection"

\* C19: when a page request of the road fetch fails, by a status other than 200
\* or by an exception, after candidate roads were fetched on earlier pages,
\* find_intersection_points does not return a crossing list computed from
\* those roads
C19_FetchFailurePropagatesClaim ==
    (CrossingsDone /\ fetch_failed # "none" /\ CandidateRoads(all_roads) # <<>>)
        => ~ReturnsCrossingList

\* the most roads the collaborator can return over all its pages
LargestFetch == MaxPages * MaxPageRoads

\* C20: a maximum number of candidate roads is enforced: whatever maximum below
\* the collaborator's capacity is configured, the largest list of candidate
\* roads the collaborator can return exceeds it, and find_intersection_points
\* does not return a crossing list for it
C20_CandidateLimitClaim ==
    (CrossingsDone /\ Len(CandidateRoads(all_roads)) = LargestFetch) => ~ReturnsCrossingList

\* ------------------------------------------------------------------- C23
\* the unvisited neighbours of the current road lie ahead of the traversal:
\* none of them touches a road visited before the current one
AllAhead(N, seen, tol) == \A n \in N, v \in seen : ~Touch(n, v, tol)

\* C23: at a hop of _traverse_linear_sql the unvisited neighbours at the
\* leading endpoint are counted after bidirectional pairs are collapsed: when
\* they form exactly one group the traversal continues, and it stops with more
\* than one of them only when they form two or more groups
C23_HopCollapseClaim ==
    [][ (pc \in {"backward", "forward"} /\ Len(sequence') = Len(sequence) + 1) =>
            LET N == UniqueUnvisited(current_road_id, t_visited',
                                     op.tolerance_degrees, op.priorities)
                groups == GroupCount(N, op.tolerance_degrees)
            IN AllAhead(N, t_visited, op.tolerance_degrees) =>
                   /\ groups = 1 => ~t_break'
                   /\ (t_break' /\ Cardinality(N) > 1) => groups >= 2 ]_vars

\* ------------------------------------------------------------------- C24
\* the distances of the four endpoint pairs of two roads, in the order
\* start-start, start-end, end-start, end-end
PairDistances(road1_coords, road2_coords) ==
    LET e1 == GetEndpoints(road1_coords)
        e2 == GetEndpoints(road2_coords)
        D(p1, p2) == HaversineDistance(p1[2], p1[1], p2[2], p2[1])
    IN <<D(e1[1], e2[1]), D(e1[1], e2[2]), D(e1[2], e2[1]), D(e1[2], e2[2])>>

PairNames == <<"start-start", "start-end", "end-start", "end-end">>

\* C24: when are_roads_connected reports a connection, it is the endpoint pair
\* with the smallest distance, and among pairs at that distance the first in
\* the order start-start, start-end, end-start, end-end
C24_SmallestPairClaim ==
    (pc = "done" /\ op.name = "are_roads_connected" /\ ret.connected) =>
        LET d == PairDistances(op.road1_coords, op.road2_coords)
            least == MinOfSet({ d[k] : k \in 1..4 })
            best == MinOfSet({ k \in 1..4 : d[k] = least })
        IN /\ ret.distance = least
           /\ ret.connection_type = PairNames[best]

\* ------------------------------------------------------------------- C25
\* every two consecutive roads of the chain touch at an endpoint
ConsecutiveConnected(chain, tol) ==
    \A k \in 1..(Len(chain) - 1) : Touch(chain[k], chain[k + 1], tol)

\* the end of road a meets the start of road b and no other two endpoints of
\* the table's roads meet
OnlyEndToStart(a, b, tol) ==
    /\ a # b /\ Live(a) /\ Live(b)
    /\ Near(roads[a].end_lat, roads[a].end_lng, roads[b].start_lat, roads[b].start_lng, tol)
    /\ ~Near(roads[a].start_lat, roads[a].start_lng, roads[b].start_lat, roads[b].start_lng, tol)
    /\ ~Near(roads[a].start_lat, roads[a].start_lng, roads[b].end_lat, roads[b].end_lng, tol)
    /\ ~Near(roads[a].end_lat, roads[a].end_lng, roads[b].end_lat, roads[b].end_lng, tol)
    /\ \A x \in DOMAIN roads \ {a, b} : ~Touch(a, x, tol) /\ ~Touch(b, x, tol)

C22_BoundedPagingClaim ==
    requests = MaxPages => pc \notin {"fetch", "gen_fetch"}

\* the polygon ingest has ended with the too-many-roads error
TooManyRoads ==
    pc = "done" /\ op.name = "_process_polygon_create" /\ ret.status_code = 400

\* C28: when fetch_roads_generator raises the too-many-roads error during
\* _process_polygon_create, no road of that fetch is in the roads table
C28_IngestAllOrNothingClaim ==
    TooManyRoads => roads = <<>>

\* ------------------------------------------------------------------- C27
\* the endpoints of a road: its first and its last coordinate
EndPoints(road_coords) == {road_coords[1], road_coords[Len(road_coords)]}

\* an endpoint of a candidate road that is a genuine crossing: within the
\* proximity tolerance of the route and not within it of the route's own start
\* or end point
GenuineCrossing(pt) ==
    /\ WithinProximity(RouteDistSq(pt))
    /\ ~WithinProximity(DistSq(pt, RouteCoords[1]))
    /\ ~WithinProximity(DistSq(pt, RouteCoords[Len(RouteCoords)]))

\* C27: find_intersection_points loses no genuine crossing: every genuine
\* crossing among the endpoints of the candidate roads is within the proximity
\* tolerance of a crossing of the returned list
C27_NoCrossingLostClaim ==
    CrossingsDone =>
        LET candidate_roads == CandidateRoads(all_roads)
        IN \A r \in 1..Len(candidate_roads) : \A pt \in EndPoints(candidate_roads[r]) :
               GenuineCrossing(pt) =>
                   \E k \in 1..Len(ret.features) : WithinProximity(DistSq(pt, ret.features[k]))

\* ------------------------------------------------------------------- C29
\* C29: segment_routes_for_visualization soft-deletes exactly the routes it
\* selected for segmentation; every other row of the routes table keeps its
\* deleted_at and updated_at, and nothing is deleted when no route is selected
C29_SoftDeleteFrameClaim ==
    [][ (pc = "idle" /\ pc' = "done" /\ op'.name = "segment_routes_for_visualization") =>
            \A r \in DOMAIN routes :
                IF SelectedForSegmentation(routes[r], op'.project_id, op'.tag, op'.distance_km)
                THEN routes'[r].deleted_at = CurrentTimestamp
                ELSE /\ routes'[r].deleted_at = routes[r].deleted_at
                     /\ routes'[r].updated_at = routes[r].updated_at ]_vars

\* ------------------------------------------------------------------- C30
\* at most one listener thread is running
OneListener == Cardinality(Listening) <= 1

\* the stop signal is cleared only when no listener is still to see it
StopSignalKept ==
    [][ (stop_event /\ ~stop_event') => Listening = {} ]_vars

\* C30: under every interleaving of start-listener and stop-listener requests
\* with the steps of the listener threads, at most one listener thread is
\* running at any time, and a stop signal is never cleared before the listener
\* it is meant for has seen it
C30_SingleListenerClaim == []OneListener /\ StopSignalKept

\* ------------------------------------------------------------------- C26
RECURSIVE Flatten(_)
\* the uuids of all stretches, in order
Flatten(stretches) ==
    IF stretches = <<>> THEN <<>> ELSE Head(stretches) \o Flatten(Tail(stretches))

\* b starts exactly where a ends, b is not the reverse of a, and the angle
\* between them is below 30 degrees
IsForwardEdge(routes_list, a, b) ==
    LET A == routes_list[a]
        B == routes_list[b]
    IN /\ <<B.start_lat, B.start_lng>> = <<A.end_lat, A.end_lng>>
       /\ <<B.end_lat, B.end_lng>> # <<A.start_lat, A.start_lng>>
       /\ ~AtLeast30(ComputeAngle(A, B))

BuildStretchesDone == pc = "done" /\ op.name = "build_stretches"

C21_RequestSpacingClaim ==
    \A a, b \in DOMAIN request_time :
        (a # b /\ request_time[a] >= 0 /\ request_time[b] >= 0) =>
            Abs(request_time[a] - request_time[b]) >= MIN_INTERVAL

====
